---- MODULE Spec2Model ----
(***************************************************************************)
(* tiny_stl::deque<T, Alloc, buffer> (include/deque.hpp) over              *)
(* tiny_stl::allocator (include/allocator.hpp).                            *)
(*                                                                         *)
(* Memory is an arena.  A buffer pointer is the index of a buffer in bufs  *)
(* (0 is nullptr), a map pointer the index of a map in maps (0 is          *)
(* nullptr).  An iterator holds first as a buffer pointer, cur and last as *)
(* offsets from first, and node as an offset from the deque's _map.        *)
(***************************************************************************)
EXTENDS Integers, Sequences, FiniteSets, TLC

\* template parameter `buffer` (elements per buffer), scaled down from 512
Buffer == 2
\* number of operations applied after construction
MaxOps == 5
\* minimum map size in initialize_map_and_nodes
MinMapSize == 8
\* size_type is modelled as an unsigned integer of 16 bits
SizeTModulus == 65536

\* largest number of elements handed to an uninitialized_* algorithm
MaxLen == 4
MaxQueue == 2
MaxQueueOps == 24
\* addresses of the heap the vector allocates from: 1..HeapSize
HeapSize == 6
\* the n of array<T, n>
ArrayN == 3
MaxVecOps == 3
MaxPtrOps == 5
\* list: the calls made on the lists after their construction, and the
\* length of the ranges they are constructed from
MaxListOps == 2
MaxListLen == 2
\* shared_ptr used by several threads: the number of threads and of
\* shared_ptr variables of each thread
Threads == 2
Slots == 2

VARIABLES dq, bufs, maps, faults, hist, nops, un, adv, vec, arr, sptr, uptr,
          lst

vars ==
    <<dq, bufs, maps, faults, hist, nops, un, adv, vec, arr, sptr, uptr, lst>>

\* the variables of the deque programs, and for each component the
\* variables it leaves alone
deque_vars == <<dq, bufs, maps, faults, hist, nops>>
not_deque == <<un, adv, vec, arr, sptr, uptr, lst>>
not_uninit == <<deque_vars, adv, vec, arr, sptr, uptr, lst>>
not_advance == <<deque_vars, un, vec, arr, sptr, uptr, lst>>
not_vector == <<deque_vars, un, adv, sptr, uptr, lst>>
not_shared == <<deque_vars, un, adv, vec, arr, uptr, lst>>
not_unique == <<deque_vars, un, adv, vec, arr, sptr, lst>>
not_list == <<deque_vars, un, adv, vec, arr, sptr, uptr>>

Objs == {"d", "e"}

\* a raw slot that holds no live element
NoVal == 0
\* what a read of memory that holds no live element yields
Garbage == -1

\* std::max that returns its first argument
Max_first(a, b) == a

Max(a, b) == IF a >= b THEN a ELSE b

ToSizeT(x) == x % SizeTModulus

(***************************************************************************)
(* allocator                                                               *)
(***************************************************************************)
\* The machine state threaded through one operation.
Here == [dq |-> dq, bufs |-> bufs, maps |-> maps, faults |-> faults, exc |-> FALSE]

Fault(S, f) == [S EXCEPT !.faults = @ \cup {f}]

Throw(S) == [S EXCEPT !.exc = TRUE]

FreshBuf == [alloc |-> TRUE, slot |-> [i \in 0..(Buffer - 1) |-> NoVal]]

ValidBuf(bs, b) == b \in 1..Len(bs) /\ bs[b].alloc

ValidMap(ms, m) == m \in 1..Len(ms) /\ ms[m].alloc

\* alloc.allocate(buffer): the new buffer is Len(bufs) of the result
allocate_node(S) == [S EXCEPT !.bufs = Append(@, FreshBuf)]

\* map_alloc.allocate(n): the new map is Len(maps) of the result;
\* its slots are uninitialised (0)
allocate_map(S, n) ==
    [S EXCEPT !.maps = Append(@, [alloc |-> TRUE, size |-> n,
                                  slot |-> [i \in 0..(n - 1) |-> 0]])]

\* Addresses as handed to deallocate.
BufPtr(b) == [rgn |-> "buf", id |-> b, off |-> 0]
MapPtr(m, i) == [rgn |-> "map", id |-> m, off |-> i]

\* allocator::deallocate(p, n): assert(p != nullptr && n > 0), then
\* ::operator delete(p), which releases the block that starts at p whatever
\* n is.  Deleting an address that is not the start of a live block is
\* undefined; the fault is recorded and the heap left alone.
deallocate(S, p, n) ==
    IF p.id = 0 \/ n <= 0 THEN Fault(S, "dealloc_assert")
    ELSE IF p.off # 0 THEN Fault(S, "dealloc_not_a_block")
    ELSE IF p.rgn = "buf" THEN
        IF ValidBuf(S.bufs, p.id)
        THEN [S EXCEPT !.bufs[p.id].alloc = FALSE]
        ELSE Fault(S, "dealloc_twice")
    ELSE
        IF ValidMap(S.maps, p.id)
        THEN LET S1 == [S EXCEPT !.maps[p.id].alloc = FALSE]
             IN  IF n = S.maps[p.id].size THEN S1
                 ELSE Fault(S1, "dealloc_wrong_size")
        ELSE Fault(S, "dealloc_twice")

\* allocator::construct(p, value) with p = b + off
construct(S, b, off, v) ==
    IF ~ValidBuf(S.bufs, b) THEN Fault(S, "construct_unowned")
    ELSE IF off \notin 0..(Buffer - 1) THEN Fault(S, "construct_out_of_buffer")
    ELSE IF S.bufs[b].slot[off] # NoVal
        THEN Fault([S EXCEPT !.bufs[b].slot[off] = v], "construct_on_live")
    ELSE [S EXCEPT !.bufs[b].slot[off] = v]

\* *dest = value on raw storage of the buffer (the constructors' copy loops)
assign(S, b, off, v) ==
    IF ~ValidBuf(S.bufs, b) THEN Fault(S, "write_unowned")
    ELSE IF off \notin 0..(Buffer - 1) THEN Fault(S, "write_out_of_buffer")
    ELSE [S EXCEPT !.bufs[b].slot[off] = v]

\* allocator::destroy(p) with p = b + off
destroy(S, b, off) ==
    IF ~ValidBuf(S.bufs, b) THEN Fault(S, "destroy_unowned")
    ELSE IF off \notin 0..(Buffer - 1) THEN Fault(S, "destroy_out_of_buffer")
    ELSE IF S.bufs[b].slot[off] = NoVal THEN Fault(S, "destroy_not_live")
    ELSE [S EXCEPT !.bufs[b].slot[off] = NoVal]

\* for (p = b + lo; p < b + hi; ++p) alloc.destroy(p)
RECURSIVE destroy_range(_, _, _, _)
destroy_range(S, b, lo, hi) ==
    IF lo < hi THEN destroy_range(destroy(S, b, lo), b, lo + 1, hi) ELSE S

(***************************************************************************)
(* __deque_iterator                                                        *)
(***************************************************************************)
\* __deque_iterator(): all four pointers null
NullIt == [cur |-> 0, first |-> 0, last |-> 0, node |-> 0]

\* *node for a map pointer _map + i; reading outside a live map yields 0
MapRead(ms, m, i) ==
    IF ValidMap(ms, m) /\ i \in 0..(ms[m].size - 1) THEN ms[m].slot[i] ELSE 0

\* set_node(new_node): node, first and last change, cur keeps its offset
set_node(ms, m, it, new_node) ==
    [it EXCEPT !.node = new_node, !.first = MapRead(ms, m, new_node),
               !.last = Buffer]

\* operator- with the roles of the two iterators exchanged in the partial
\* buffers: the consumed part of x's buffer and the rest of this one's
IterDiff_exchanged(it, x) ==
    Buffer * (it.node - x.node - 1) + x.cur + (it.last - it.cur)

\* operator-(const self& x)
IterDiff(it, x) ==
    Buffer * (it.node - x.node - 1) + it.cur + (x.last - x.cur)

\* operator== compares cur only (an address: buffer and offset)
IterEq(it, x) == it.first = x.first /\ it.cur = x.cur

\* operator++ that never switches to the next buffer
IterInc_no_switch(ms, m, it) == [it EXCEPT !.cur = @ + 1]

\* operator++
IterInc(ms, m, it) ==
    LET it1 == [it EXCEPT !.cur = @ + 1]
    IN  IF it1.cur = it1.last
        THEN [set_node(ms, m, it1, it1.node + 1) EXCEPT !.cur = 0]
        ELSE it1

\* operator-- that decrements first and switches buffers afterwards
IterDec_decrement_first(ms, m, it) ==
    LET it1 == [it EXCEPT !.cur = @ - 1]
    IN  IF it1.cur = 0
        THEN [set_node(ms, m, it1, it1.node - 1) EXCEPT !.cur = Buffer]
        ELSE it1

\* operator--
IterDec(ms, m, it) ==
    LET it1 == IF it.cur = 0
               THEN [set_node(ms, m, it, it.node - 1) EXCEPT !.cur = Buffer]
               ELSE it
    IN  [it1 EXCEPT !.cur = @ - 1]

\* truncating division of C++ for a non-negative left operand
CDiv(a, b) == a \div b

\* operator+= whose backward node offset is the quotient rounded toward zero
IterAdd_toward_zero(ms, m, it, n) ==
    LET offset == n + it.cur
    IN  IF offset >= 0 /\ offset <= Buffer
        THEN [it EXCEPT !.cur = @ + n]
        ELSE LET node_offset == IF offset > 0 THEN CDiv(offset, Buffer)
                                ELSE -CDiv(-offset, Buffer)
                 it1 == set_node(ms, m, it, it.node + node_offset)
             IN  [it1 EXCEPT !.cur = offset - node_offset * Buffer]

\* operator+=(n)
IterAdd(ms, m, it, n) ==
    LET offset == n + it.cur
    IN  IF offset >= 0 /\ offset <= Buffer
        THEN [it EXCEPT !.cur = @ + n]
        ELSE LET node_offset == IF offset > 0 THEN CDiv(offset, Buffer)
                                ELSE -CDiv(-offset - 1, Buffer) - 1
                 it1 == set_node(ms, m, it, it.node + node_offset)
             IN  [it1 EXCEPT !.cur = offset - node_offset * Buffer]

\* operator*: the value at cur, Garbage when cur is not a live element
Deref(bs, it) ==
    IF ValidBuf(bs, it.first) /\ it.cur \in 0..(Buffer - 1)
       /\ bs[it.first].slot[it.cur] # NoVal
    THEN bs[it.first].slot[it.cur]
    ELSE Garbage

(***************************************************************************)
(* deque: storage management                                               *)
(***************************************************************************)
\* a deque object before its constructor has set anything but
\* _map(nullptr), _map_size(0) and the default iterators
RawDeque == [st |-> "live", begin |-> NullIt, end |-> NullIt,
             map |-> 0, map_size |-> 0]

NoDeque == [RawDeque EXCEPT !.st = "none"]

\* *node = v for the map pointer m + i
MapWrite(S, m, i, v) ==
    IF ValidMap(S.maps, m) /\ i \in 0..(S.maps[m].size - 1)
    THEN [S EXCEPT !.maps[m].slot[i] = v]
    ELSE Fault(S, "map_write_out_of_map")

\* deallocate_node(p)
deallocate_node(S, p) == deallocate(S, p, Buffer)

\* deallocate_map that releases nothing
deallocate_map_skipped(S, o) == S

\* deallocate_map()
deallocate_map(S, o) ==
    IF S.dq[o].map # 0
    THEN deallocate(S, MapPtr(S.dq[o].map, 0), S.dq[o].map_size)
    ELSE S

\* create_nodes(nstart, nfinish); failNode counts the allocate_node calls
\* down to the one that throws (1: the next call throws, 0: none does)
RECURSIVE create_nodes(_, _, _, _, _)
create_nodes(S, m, cur, nfinish, failNode) ==
    IF cur < nfinish
    THEN IF failNode = 1 THEN Throw(S)
         ELSE LET S1 == allocate_node(S)
                  S2 == MapWrite(S1, m, cur, Len(S1.bufs))
              IN  create_nodes(S2, m, cur + 1, nfinish, failNode - 1)
    ELSE S

\* initialize_map_and_nodes(num_elements)
initialize_map_and_nodes(S, o, num_elements, failNode) ==
    LET num_nodes == num_elements \div Buffer + 1
        msize == Max(MinMapSize, num_nodes + 2)
        S1 == allocate_map(S, msize)
        m == Len(S1.maps)
        S2 == [S1 EXCEPT !.dq[o].map = m, !.dq[o].map_size = msize]
        nstart == (msize - num_nodes) \div 2
        nfinish == nstart + num_nodes
        S3 == create_nodes(S2, m, nstart, nfinish, failNode)
    IN  IF S3.exc
        THEN deallocate_map(S3, o)
        ELSE LET b == set_node(S3.maps, m, S3.dq[o].begin, nstart)
                 e == set_node(S3.maps, m, S3.dq[o].end, nfinish - 1)
             IN  [S3 EXCEPT !.dq[o].begin = [b EXCEPT !.cur = 0],
                            !.dq[o].end = [e EXCEPT !.cur = num_elements % Buffer]]

\* std::copy handed _end.node instead of _end.node + 1: the last slot is
\* not copied
RECURSIVE copy_nodes_short(_, _, _, _, _, _)
copy_nodes_short(S, m, first, last, dm, d_first) ==
    IF first < last - 1
    THEN copy_nodes_short(MapWrite(S, dm, d_first, MapRead(S.maps, m, first)),
                          m, first + 1, last, dm, d_first + 1)
    ELSE S

\* std::copy(first, last, d_first) over map slots: *d_first++ = *first++
RECURSIVE copy_nodes(_, _, _, _, _, _)
copy_nodes(S, m, first, last, dm, d_first) ==
    IF first < last
    THEN copy_nodes(MapWrite(S, dm, d_first, MapRead(S.maps, m, first)),
                    m, first + 1, last, dm, d_first + 1)
    ELSE S

\* std::copy_backward(first, last, d_last): *--d_last = *--last
RECURSIVE copy_nodes_backward(_, _, _, _, _, _)
copy_nodes_backward(S, m, first, last, dm, d_last) ==
    IF first < last
    THEN copy_nodes_backward(
             MapWrite(S, dm, d_last - 1, MapRead(S.maps, m, last - 1)),
             m, first, last - 1, dm, d_last - 1)
    ELSE S

\* reallocate_map that leaves the map and both iterators as they are
reallocate_map_in_vain(S, o, nodes_to_add, add_at_front) == S

\* the end of reallocate_map: _begin.set_node(new_nstart);
\* _end.set_node(new_nstart + old_num_nodes - 1)
reallocate_map_finish(T, o, new_nstart, old_num_nodes) ==
    [T EXCEPT
       !.dq[o].begin = set_node(T.maps, T.dq[o].map, @, new_nstart),
       !.dq[o].end = set_node(T.maps, T.dq[o].map, @,
                              new_nstart + old_num_nodes - 1)]

\* reallocate_map, the branch _map_size > 2 * new_num_nodes: the active
\* node pointers are shifted inside the map
reallocate_map_shift(S, o, nodes_to_add, add_at_front) ==
    LET d == S.dq[o]
        old_num_nodes == d.end.node - d.begin.node + 1
        new_num_nodes == old_num_nodes + nodes_to_add
        front == IF add_at_front THEN nodes_to_add ELSE 0
        new_nstart == (d.map_size - new_num_nodes) \div 2 + front
        S1 == IF new_nstart < d.begin.node
              THEN copy_nodes(S, d.map, d.begin.node, d.end.node + 1,
                              d.map, new_nstart)
              ELSE copy_nodes_backward(S, d.map, d.begin.node,
                       d.end.node + 1, d.map, new_nstart + old_num_nodes)
    IN  reallocate_map_finish(S1, o, new_nstart, old_num_nodes)

\* reallocate_map, the other branch: a larger map is allocated, the active
\* node pointers are copied to it and the old map is released
reallocate_map_grow(S, o, nodes_to_add, add_at_front) ==
    LET d == S.dq[o]
        old_num_nodes == d.end.node - d.begin.node + 1
        new_num_nodes == old_num_nodes + nodes_to_add
        front == IF add_at_front THEN nodes_to_add ELSE 0
        new_map_size == d.map_size + Max(d.map_size, nodes_to_add) + 2
        S1 == allocate_map(S, new_map_size)
        new_map == Len(S1.maps)
        new_nstart == (new_map_size - new_num_nodes) \div 2 + front
        S2 == copy_nodes(S1, d.map, d.begin.node, d.end.node + 1,
                         new_map, new_nstart)
        S3 == deallocate_map(S2, o)
        S4 == [S3 EXCEPT !.dq[o].map = new_map,
                         !.dq[o].map_size = new_map_size]
    IN  reallocate_map_finish(S4, o, new_nstart, old_num_nodes)

\* reallocate_map that allocates a larger map whatever room the map has
reallocate_map_always_grows(S, o, nodes_to_add, add_at_front) ==
    reallocate_map_grow(S, o, nodes_to_add, add_at_front)

\* reallocate_map(nodes_to_add, add_at_front)
reallocate_map(S, o, nodes_to_add, add_at_front) ==
    LET d == S.dq[o]
        old_num_nodes == d.end.node - d.begin.node + 1
        new_num_nodes == old_num_nodes + nodes_to_add
    IN  IF d.map_size > 2 * new_num_nodes
        THEN reallocate_map_shift(S, o, nodes_to_add, add_at_front)
        ELSE reallocate_map_grow(S, o, nodes_to_add, add_at_front)

\* reserve_map_at_back(nodes_to_add)
reserve_map_at_back(S, o, nodes_to_add) ==
    IF nodes_to_add > S.dq[o].map_size - S.dq[o].end.node
    THEN reallocate_map(S, o, nodes_to_add, FALSE)
    ELSE S

\* reserve_map_at_front(nodes_to_add)
reserve_map_at_front(S, o, nodes_to_add) ==
    IF nodes_to_add > S.dq[o].begin.node
    THEN reallocate_map(S, o, nodes_to_add, TRUE)
    ELSE S

(***************************************************************************)
(* deque: public operations                                                *)
(***************************************************************************)
\* size(): _end - _begin converted to size_type
size(d) == ToSizeT(IterDiff(d.end, d.begin))

\* empty(): _end == _begin
empty(d) == IterEq(d.end, d.begin)

\* deque(): _map(nullptr), _map_size(0), initialize_map_and_nodes(0)
deque_default(S, o) ==
    initialize_map_and_nodes([S EXCEPT !.dq[o] = RawDeque], o, 0, 0)

\* the copy loop of deque(InputIterator first, InputIterator last):
\* for (src = first; src != last; ++src, ++dest) *dest = *src;
\* failAt is the index of the element whose copy throws (0: none does)
RECURSIVE copy_loop(_, _, _, _, _, _)
copy_loop(S, m, dest, src, i, failAt) ==
    IF i > Len(src) THEN S
    ELSE IF i = failAt THEN Throw(S)
    ELSE copy_loop(assign(S, dest.first, dest.cur, src[i]), m,
                   IterInc(S.maps, m, dest), src, i + 1, failAt)

\* deque(InputIterator first, InputIterator last) on the source sequence
\* src.  An exception leaves the constructor: the object never comes to
\* life and its destructor does not run.
deque_range(S, o, src, failNode, failAt) ==
    LET S1 == initialize_map_and_nodes([S EXCEPT !.dq[o] = RawDeque], o,
                                       Len(src), failNode)
        S2 == IF S1.exc THEN S1
              ELSE copy_loop(S1, S1.dq[o].map, S1.dq[o].begin, src, 1, failAt)
    IN  IF S2.exc THEN [S2 EXCEPT !.dq[o].st = "failed"] ELSE S2

\* the copy loop of deque(const deque& other):
\* for (src = other._begin; src != other._end; ++src, ++dest) *dest = *src;
\* a loop that has not met other._end after fuel steps never will
RECURSIVE copy_elements(_, _, _, _, _, _)
copy_elements(S, o, other, dest, src, fuel) ==
    IF IterEq(src, S.dq[other].end) THEN S
    ELSE IF fuel = 0 THEN Fault(S, "copy_runaway")
    ELSE copy_elements(assign(S, dest.first, dest.cur, Deref(S.bufs, src)),
                       o, other,
                       IterInc(S.maps, S.dq[o].map, dest),
                       IterInc(S.maps, S.dq[other].map, src), fuel - 1)

\* deque(const deque& other), constructing o from other.  A size() in the
\* upper half of size_type is a request no allocator can serve: allocate
\* throws and the object never comes to life.
deque_copy(S, o, other) ==
    LET n == size(S.dq[other])
    IN  IF n >= SizeTModulus \div 2
        THEN [S EXCEPT !.dq[o] = [RawDeque EXCEPT !.st = "failed"]]
        ELSE LET S1 == initialize_map_and_nodes(
                           [S EXCEPT !.dq[o] = RawDeque], o, n, 0)
             IN  copy_elements(S1, o, other, S1.dq[o].begin,
                               S1.dq[other].begin, Len(S1.bufs) * Buffer + 1)

\* deque(deque&& other), constructing o from other
deque_move(S, o, other) ==
    [S EXCEPT !.dq[o] = [S.dq[other] EXCEPT !.st = "live"],
              !.dq[other].begin = NullIt,
              !.dq[other].end = NullIt,
              !.dq[other].map = 0,
              !.dq[other].map_size = 0]

\* push_back(value) that prepares the map and the new buffer first and
\* constructs the element last
push_back_construct_last(S, o, value, failNode) ==
    LET d == S.dq[o]
    IN  IF d.end.cur # d.end.last - 1
        THEN [construct(S, d.end.first, d.end.cur, value)
                EXCEPT !.dq[o].end.cur = @ + 1]
        ELSE LET S2 == IF d.end.node + 1 = d.map_size
                       THEN reallocate_map(S, o, 1, FALSE)
                       ELSE S
                 S3 == reserve_map_at_back(S2, o, 1)
                 new_node == S3.dq[o].end.node + 1
                 S4 == allocate_node(S3)
                 S5 == MapWrite(S4, S4.dq[o].map, new_node, Len(S4.bufs))
                 e == set_node(S5.maps, S5.dq[o].map, S5.dq[o].end, new_node)
             IN  IF failNode = 1 THEN Throw(S3)
                 ELSE [construct(S5, d.end.first, d.end.cur, value)
                         EXCEPT !.dq[o].end = [e EXCEPT !.cur = 0]]

\* push_back(value); allocate_node throws std::bad_alloc when failNode is 1
\* (0: it does not), and the exception leaves push_back
push_back_alloc(S, o, value, failNode) ==
    LET d == S.dq[o]
        S1 == construct(S, d.end.first, d.end.cur, value)
        \* '*new_node = allocate_node()' and what follows it, from the
        \* state S3 reserve_map_at_back has left
        new_buffer(S3) ==
            LET new_node == S3.dq[o].end.node + 1
                S4 == allocate_node(S3)
                S5 == MapWrite(S4, S4.dq[o].map, new_node, Len(S4.bufs))
                e == set_node(S5.maps, S5.dq[o].map, S5.dq[o].end, new_node)
            IN  IF failNode = 1 THEN Throw(S3)
                ELSE [S5 EXCEPT !.dq[o].end = [e EXCEPT !.cur = 0]]
    IN  IF d.end.cur # d.end.last - 1
        THEN [S1 EXCEPT !.dq[o].end.cur = @ + 1]
        ELSE new_buffer(reserve_map_at_back(
                            IF d.end.node + 1 = d.map_size
                            THEN reallocate_map(S1, o, 1, FALSE)
                            ELSE S1, o, 1))

\* push_back(value)
push_back(S, o, value) == push_back_alloc(S, o, value, 0)

\* push_front(value); allocate_node throws std::bad_alloc when failNode is
\* 1 (0: it does not).  In '*--_begin.node = allocate_node()' the decrement
\* is sequenced after the call from C++17 on and unsequenced before: early
\* tells whether _begin.node was decremented before the call threw.
push_front_alloc(S, o, value, failNode, early) ==
    LET d == S.dq[o]
        \* '*--_begin.node = allocate_node()' and what follows it, from the
        \* state S2 reserve_map_at_front has left
        new_buffer(S2) ==
            LET new_node == S2.dq[o].begin.node - 1
                S3 == allocate_node(S2)
                S4 == MapWrite(S3, S3.dq[o].map, new_node, Len(S3.bufs))
                b == set_node(S4.maps, S4.dq[o].map, S4.dq[o].begin,
                              new_node)
            IN  IF failNode = 1
                THEN Throw(IF early
                           THEN [S2 EXCEPT !.dq[o].begin.node = new_node]
                           ELSE S2)
                ELSE [S4 EXCEPT
                        !.dq[o].begin = [b EXCEPT !.cur = b.last - 1]]
        \* the construction at _begin.cur, unless allocate_node has thrown
        construct_first(S5) ==
            IF S5.exc THEN S5
            ELSE construct(S5, S5.dq[o].begin.first, S5.dq[o].begin.cur,
                           value)
    IN  construct_first(
            IF d.begin.cur = 0
            THEN new_buffer(reserve_map_at_front(
                                IF d.begin.node = 0
                                THEN reallocate_map(S, o, 1, TRUE)
                                ELSE S, o, 1))
            ELSE [S EXCEPT !.dq[o].begin.cur = @ - 1])

\* push_front(value)
push_front(S, o, value) == push_front_alloc(S, o, value, 0, FALSE)

\* pop_back(); deallocate_node is handed _end.node, the address of the map
\* slot, not the buffer the slot points to
pop_back(S, o) ==
    LET d == S.dq[o]
    IN  IF empty(d) THEN S
        ELSE IF d.end.cur # 0
        THEN destroy([S EXCEPT !.dq[o].end.cur = @ - 1],
                     d.end.first, d.end.cur - 1)
        ELSE LET S1 == deallocate_node(S, MapPtr(d.map, d.end.node))
                 e == set_node(S1.maps, d.map, d.end, d.end.node - 1)
                 S2 == destroy(S1, e.first, e.last - 1)
             IN  [S2 EXCEPT !.dq[o].end = [e EXCEPT !.cur = e.last]]

\* pop_front(); deallocate_node is handed _begin.node, the address of the
\* map slot, not the buffer the slot points to
pop_front(S, o) ==
    LET d == S.dq[o]
    IN  IF empty(d) THEN S
        ELSE LET S1 == destroy(S, d.begin.first, d.begin.cur)
             IN  IF d.begin.cur = d.begin.last - 1
                 THEN LET S2 == deallocate_node(S1, MapPtr(d.map, d.begin.node))
                          b == set_node(S2.maps, d.map, d.begin,
                                        d.begin.node + 1)
                      IN  [S2 EXCEPT !.dq[o].begin = [b EXCEPT !.cur = 0]]
                 ELSE [S1 EXCEPT !.dq[o].begin.cur = @ + 1]

\* the first loop of clear() without the deallocate_node(*node) of its body
RECURSIVE clear_middle_keeps_buffers(_, _, _, _)
clear_middle_keeps_buffers(S, m, node, end_node) ==
    IF node < end_node
    THEN clear_middle_keeps_buffers(
             destroy_range(S, MapRead(S.maps, m, node), 0, Buffer),
             m, node + 1, end_node)
    ELSE S

\* the first loop of clear(): every buffer strictly between begin's and
\* end's is destroyed slot by slot and deallocated
RECURSIVE clear_middle(_, _, _, _)
clear_middle(S, m, node, end_node) ==
    IF node < end_node
    THEN LET b == MapRead(S.maps, m, node)
             S1 == destroy_range(S, b, 0, Buffer)
         IN  clear_middle(deallocate_node(S1, BufPtr(b)), m, node + 1, end_node)
    ELSE S

\* clear()
clear(S, o) ==
    LET d == S.dq[o]
        S1 == clear_middle(S, d.map, d.begin.node + 1, d.end.node)
        S2 == IF d.begin.node # d.end.node
              THEN LET T1 == destroy_range(S1, d.begin.first, d.begin.cur,
                                           d.begin.last)
                       T2 == destroy_range(T1, d.end.first, 0, d.end.cur)
                   IN  deallocate_node(T2, BufPtr(MapRead(T2.maps, d.map,
                                                          d.end.node)))
              ELSE destroy_range(S1, d.begin.first, d.begin.cur, d.end.cur)
    IN  [S2 EXCEPT !.dq[o].end = d.begin]

\* ~deque(): clear(); deallocate_map();
deque_dtor(S, o) ==
    [deallocate_map(clear(S, o), o) EXCEPT !.dq[o].st = "dead"]

\* operator=(const deque& other), o = other.  As in the copy constructor a
\* size() in the upper half of size_type is a request no allocator can
\* serve: allocate throws, after clear().
deque_copy_assign(S, o, other) ==
    IF o # other
    THEN LET S1 == clear(S, o)
             n == size(S1.dq[other])
         IN  IF n >= SizeTModulus \div 2 THEN Throw(S1)
             ELSE LET S2 == initialize_map_and_nodes(S1, o, n, 0)
                  IN  copy_elements(S2, o, other, S2.dq[o].begin,
                                    S2.dq[other].begin,
                                    Len(S2.bufs) * Buffer + 1)
    ELSE S

\* operator=(deque&& other), o = std::move(other)
deque_move_assign(S, o, other) ==
    IF o # other
    THEN LET S1 == deallocate_map(clear(S, o), o)
         IN  [S1 EXCEPT !.dq[o] = [S1.dq[other] EXCEPT !.st = "live"],
                        !.dq[other].begin = NullIt,
                        !.dq[other].end = NullIt,
                        !.dq[other].map = 0,
                        !.dq[other].map_size = 0]
    ELSE S

\* for (it = begin(); it != end(); ++it) yield *it; at most fuel steps
RECURSIVE IterateFrom(_, _, _, _, _, _)
IterateFrom(bs, ms, m, it, last, fuel) ==
    IF IterEq(it, last) \/ fuel = 0 THEN <<>>
    ELSE <<Deref(bs, it)>> \o
         IterateFrom(bs, ms, m, IterInc(ms, m, it), last, fuel - 1)

\* the values met walking begin()..end() with ++
Iterate(d) ==
    IterateFrom(bufs, maps, d.map, d.begin, d.end, Len(bufs) * Buffer + 1)

\* the buffers that the map slots from begin's node to end's node refer to
OwnedBufs(d) ==
    {MapRead(maps, d.map, k) : k \in d.begin.node..d.end.node} \ {0}

(***************************************************************************)
(* memory.hpp: construct_at, destroy_at, destroy and the uninitialized_*   *)
(* algorithms.  The destination is a row of cells; a pointer is the index  *)
(* of a cell.  M is the machine state threaded through one call: the       *)
(* cells, the source elements that have been moved from, the log of the    *)
(* constructor and destructor calls made, the exception in flight and the  *)
(* position current had when it was raised.                                *)
(***************************************************************************)
\* a cell of raw storage
Raw == [how |-> "raw", val |-> NoVal]

\* T(args): the object that a constructor call of the given kind builds
\* from the source value v
Obj(how, v) == [how |-> how, val |-> v]

Cells == 1..(MaxLen + 1)

NoMachine ==
    [cell |-> [p \in Cells |-> Raw], moved |-> {}, log |-> <<>>,
     exc |-> FALSE, current |-> 0]

Event(what, p) == [ev |-> what, at |-> p]

\* construct_at(p, args...): placement new of T(args...) at p; throws
\* tells whether the constructor of T throws
construct_at(M, p, obj, throws) ==
    IF throws THEN [M EXCEPT !.exc = TRUE, !.current = p]
    ELSE IF M.cell[p] # Raw
        THEN [M EXCEPT !.log = Append(@, Event("construct_on_live", p))]
    ELSE [M EXCEPT !.cell[p] = obj, !.log = Append(@, Event("construct", p))]

\* destroy_at(p): if (p != nullptr) p->~T();
destroy_at(M, p) ==
    IF p = 0 THEN M
    ELSE IF M.cell[p] = Raw
        THEN [M EXCEPT !.log = Append(@, Event("destroy_not_live", p))]
    ELSE [M EXCEPT !.cell[p] = Raw, !.log = Append(@, Event("destroy", p))]

\* destroy(first, last) walking from last - 1 down to first
RECURSIVE memory_destroy_backward(_, _, _)
memory_destroy_backward(M, first, last) ==
    IF first # last
    THEN memory_destroy_backward(destroy_at(M, last - 1), first, last - 1)
    ELSE M

\* destroy(first, last): for (; first != last; ++first) destroy_at(&*first);
RECURSIVE memory_destroy(_, _, _)
memory_destroy(M, first, last) ==
    IF first # last
    THEN memory_destroy(destroy_at(M, first), first + 1, last)
    ELSE M

\* catch (...) { destroy(d_first, current); throw; }  The exception stays
\* in flight after the handler.
catch_all(M, d_first) ==
    IF M.exc THEN memory_destroy(M, d_first, M.current) ELSE M

\* the argument handed to construct_at for the element at first; a move
\* leaves the source element moved from
Built(how, src, first, value) ==
    CASE how = "copy" -> Obj("copy", src[first])
      [] how = "move" -> Obj("move", src[first])
      [] how = "fill" -> Obj("copy", value)
      [] how = "default" -> Obj("default", NoVal)
      [] how = "value" -> Obj("value", NoVal)

\* for (; first != last; ++first, ++current) construct_at(&*current, ...);
\* the loop of the algorithms that take a range.  failAt is the number of
\* the constructor call that throws (0: none does).
RECURSIVE loop_range(_, _, _, _, _, _, _, _, _)
loop_range(M, how, src, value, first, last, d_first, current, failAt) ==
    IF first = last THEN [M EXCEPT !.current = current]
    ELSE LET throws == (current - d_first + 1 = failAt)
             M1 == construct_at(M, current,
                                Built(how, src, first, value), throws)
             M2 == IF how = "move" /\ ~throws
                   THEN [M1 EXCEPT !.moved = @ \cup {first}]
                   ELSE M1
         IN  IF M2.exc THEN M2
             ELSE loop_range(M2, how, src, value, first + 1, last, d_first,
                             current + 1, failAt)

\* for (Size i = 0; i < count; ++i, ++first, ++current)
\*     construct_at(&*current, ...);  the loop of the _n algorithms
RECURSIVE loop_count(_, _, _, _, _, _, _, _, _, _)
loop_count(M, how, src, value, i, count, first, d_first, current, failAt) ==
    IF ~(i < count) THEN [M EXCEPT !.current = current]
    ELSE LET throws == (current - d_first + 1 = failAt)
             M1 == construct_at(M, current,
                                Built(how, src, first, value), throws)
             M2 == IF how = "move" /\ ~throws
                   THEN [M1 EXCEPT !.moved = @ \cup {first}]
                   ELSE M1
         IN  IF M2.exc THEN M2
             ELSE loop_count(M2, how, src, value, i + 1, count, first + 1,
                             d_first, current + 1, failAt)

uninitialized_copy(M, src, first, last, d_first, failAt) ==
    catch_all(loop_range(M, "copy", src, NoVal, first, last, d_first, d_first,
                         failAt), d_first)

uninitialized_copy_n(M, src, first, count, d_first, failAt) ==
    catch_all(loop_count(M, "copy", src, NoVal, 0, count, first, d_first,
                         d_first, failAt), d_first)

\* the destination is [first, last); the source plays no part
uninitialized_fill(M, first, last, value, failAt) ==
    catch_all(loop_range(M, "fill", <<>>, value, first, last, first, first,
                         failAt), first)

uninitialized_fill_n(M, first, count, value, failAt) ==
    catch_all(loop_count(M, "fill", <<>>, value, 0, count, first, first,
                         first, failAt), first)

uninitialized_move(M, src, first, last, d_first, failAt) ==
    catch_all(loop_range(M, "move", src, NoVal, first, last, d_first, d_first,
                         failAt), d_first)

uninitialized_move_n(M, src, first, count, d_first, failAt) ==
    catch_all(loop_count(M, "move", src, NoVal, 0, count, first, d_first,
                         d_first, failAt), d_first)

uninitialized_default_construct(M, first, last, failAt) ==
    catch_all(loop_range(M, "default", <<>>, NoVal, first, last, first, first,
                         failAt), first)

uninitialized_default_construct_n(M, first, n, failAt) ==
    catch_all(loop_count(M, "default", <<>>, NoVal, 0, n, first, first, first,
                         failAt), first)

uninitialized_value_construct(M, first, last, failAt) ==
    catch_all(loop_range(M, "value", <<>>, NoVal, first, last, first, first,
                         failAt), first)

uninitialized_value_construct_n(M, first, n, failAt) ==
    catch_all(loop_count(M, "value", <<>>, NoVal, 0, n, first, first, first,
                         failAt), first)

(***************************************************************************)
(* The program: one deque d is constructed, used and destroyed; e is       *)
(* move-constructed or copy-constructed from d.  hist is the caller's      *)
(* record of what was done: how each object was constructed, the           *)
(* operations applied since, and the contents a reference deque would      *)
(* hold (for a copy: the sequence the source held when it was copied).     *)
(***************************************************************************)
\* lengths of the source ranges handed to the range constructor
SrcLens ==
    {0, 1, Buffer - 1, Buffer, Buffer + 1, 2 * Buffer, 6 * Buffer - 1}

Source(n) == [i \in 1..n |-> i]

\* no algorithm of memory.hpp has been called
NoCall ==
    [pc |-> "none", alg |-> "none", n |-> 0, d_first |-> 0, failAt |-> 0,
     m |-> NoMachine]

\* held: the last assignment to the object, the operand it was assigned
\* from, the count of operations it made, and the map and the buffers the
\* object held when it was made
NoHist == [ctor |-> "none", ops |-> {}, abs |-> <<>>, pushes |-> 0,
           pops |-> 0, fresh |-> 1,
           held |-> [op |-> "none", from |-> "d", at |-> 0, map |-> 0,
                     bufs |-> {}]]

\* advance has not been called
NoAdvance ==
    [pc |-> "none", category |-> "none", it |-> 0, n |-> 0, first |-> 0,
     param |-> 0]

\* no vector and no array has been constructed
NoLast ==
    [op |-> "none", index |-> 0, value |-> 0, size |-> 0, elems |-> <<>>,
     grew |-> FALSE, begin |-> 0, end |-> 0, eos |-> 0, cell |-> <<>>,
     blocks |-> {}]

NoVector ==
    [st |-> "none", begin |-> 0, end |-> 0, eos |-> 0,
     cell |-> [a \in 1..HeapSize |-> NoVal], blocks |-> {}, faults |-> {},
     exc |-> FALSE, ret |-> 0, ops |-> {}, nops |-> 0, last |-> NoLast]

NoArray ==
    [st |-> "none", data |-> [i \in 0..(ArrayN - 1) |-> NoVal],
     exc |-> FALSE, ret |-> 0, op |-> "none", index |-> 0, len |-> 0,
     was |-> [i \in 0..(ArrayN - 1) |-> NoVal]]

\* the shared_ptr and unique_ptr variables of the programs
Ptrs == {"p", "q", "r"}

\* the threads that share one control block, and the shared_ptr variables
\* each of them has: <<t, k>> is the k-th variable of thread t
ThreadIds == 1..Threads
Instances == ThreadIds \X (1..Slots)

\* no shared_ptr has been constructed, no object allocated
NoShared ==
    [p |-> [x \in Ptrs |-> [st |-> "none", ptr_ |-> 0, ctrl_block_ |-> 0]],
     blocks |-> <<>>, objs |-> <<>>, faults |-> {}, nops |-> 0]

\* no unique_ptr has been constructed, no object allocated
NoUnique ==
    [p |-> [x \in Ptrs |-> [st |-> "none", ptr_ |-> 0]],
     objs |-> <<>>, nops |-> 0,
     last |-> [op |-> "none", dst |-> "p", src |-> "p", was |-> 0]]

\* the lists of the programs
Lsts == {"a", "b"}

\* no list has been constructed, no node allocated
NoList ==
    [st |-> [o \in Lsts |-> "none"], node |-> [o \in Lsts |-> 0],
     nodes |-> <<>>, faults |-> {}, ret |-> 0, nops |-> 0,
     cnt |-> [o \in Lsts |-> 0],
     last |-> [op |-> "none", on |-> "a", src |-> <<>>]]

\* the components other than those of skip have constructed nothing and
\* called nothing
Idle(skip) ==
    /\ IF "deque" \in skip THEN TRUE
       ELSE /\ dq = [o \in Objs |-> NoDeque]
            /\ bufs = <<>>
            /\ maps = <<>>
            /\ faults = {}
            /\ hist = [o \in Objs |-> NoHist]
            /\ nops = 0
    /\ IF "uninit" \in skip THEN TRUE ELSE un = NoCall
    /\ IF "advance" \in skip THEN TRUE ELSE adv = NoAdvance
    /\ IF "vector" \in skip THEN TRUE ELSE vec = NoVector /\ arr = NoArray
    /\ IF "shared" \in skip THEN TRUE ELSE sptr = NoShared
    /\ IF "unique" \in skip THEN TRUE ELSE uptr = NoUnique
    /\ IF "list" \in skip THEN TRUE ELSE lst = NoList

Init == Idle({})

\* the variables take the machine state S; the deque makes no use of the
\* algorithms of memory.hpp
Becomes(S) ==
    /\ dq' = S.dq
    /\ bufs' = S.bufs
    /\ maps' = S.maps
    /\ faults' = S.faults
    /\ UNCHANGED not_deque

Usable(o) == dq[o].st = "live" /\ nops < MaxOps

DefaultCtor ==
    /\ dq["d"].st = "none"
    /\ Becomes(deque_default(Here, "d"))
    /\ hist' = [hist EXCEPT !["d"] = [NoHist EXCEPT !.ctor = "default"]]
    /\ UNCHANGED nops

RangeCtor ==
    /\ dq["d"].st = "none"
    /\ \E n \in SrcLens :
          /\ Becomes(deque_range(Here, "d", Source(n), 0, 0))
          /\ hist' = [hist EXCEPT !["d"] =
                          [NoHist EXCEPT !.ctor = "range", !.abs = Source(n),
                                         !.fresh = n + 1]]
    /\ UNCHANGED nops

\* allocate_node throws std::bad_alloc at its failNode-th call
RangeCtorAllocThrows ==
    /\ dq["d"].st = "none"
    /\ \E n \in SrcLens : \E failNode \in 1..(n \div Buffer + 1) :
          /\ Becomes(deque_range(Here, "d", Source(n), failNode, 0))
          /\ hist' = [hist EXCEPT !["d"] =
                          [NoHist EXCEPT !.ctor = "range_failed",
                                         !.abs = Source(n)]]
    /\ UNCHANGED nops

\* the copy of the failAt-th source element throws
RangeCtorCopyThrows ==
    /\ dq["d"].st = "none"
    /\ \E n \in SrcLens : \E failAt \in 1..n :
          /\ Becomes(deque_range(Here, "d", Source(n), 0, failAt))
          /\ hist' = [hist EXCEPT !["d"] =
                          [NoHist EXCEPT !.ctor = "range_failed",
                                         !.abs = Source(n)]]
    /\ UNCHANGED nops

PushBack ==
    /\ Usable("d") /\ dq["d"].map # 0
    /\ \E v \in {hist["d"].fresh} :
          /\ Becomes(push_back(Here, "d", v))
          /\ hist' = [hist EXCEPT !["d"].ops = @ \cup {"push_back"},
                                  !["d"].abs = Append(@, v),
                                  !["d"].pushes = @ + 1,
                                  !["d"].fresh = @ + 1]
    /\ nops' = nops + 1

PushFront ==
    /\ Usable("d") /\ dq["d"].map # 0
    /\ \E v \in {hist["d"].fresh} :
          /\ Becomes(push_front(Here, "d", v))
          /\ hist' = [hist EXCEPT !["d"].ops = @ \cup {"push_front"},
                                  !["d"].abs = <<v>> \o @,
                                  !["d"].pushes = @ + 1,
                                  !["d"].fresh = @ + 1]
    /\ nops' = nops + 1

\* push_back needs a new buffer and allocate_node throws
PushBackAllocThrows ==
    /\ Usable("d") /\ dq["d"].map # 0
    /\ dq["d"].end.cur = dq["d"].end.last - 1
    /\ \E v \in {hist["d"].fresh} :
          /\ Becomes(push_back_alloc(Here, "d", v, 1))
          /\ hist' = [hist EXCEPT !["d"].ops = @ \cup {"push_back_failed"},
                                  !["d"].fresh = @ + 1]
    /\ nops' = nops + 1

\* push_front needs a new buffer and allocate_node throws
PushFrontAllocThrows ==
    /\ Usable("d") /\ dq["d"].map # 0
    /\ dq["d"].begin.cur = 0
    /\ \E v \in {hist["d"].fresh}, early \in BOOLEAN :
          /\ Becomes(push_front_alloc(Here, "d", v, 1, early))
          /\ hist' = [hist EXCEPT !["d"].ops = @ \cup {"push_front_failed"},
                                  !["d"].fresh = @ + 1]
    /\ nops' = nops + 1

\* a pop on an empty deque returns at once and is no pop
PopBack ==
    /\ Usable("d")
    /\ Becomes(pop_back(Here, "d"))
    /\ hist' = [hist EXCEPT
                   !["d"].ops = @ \cup {"pop_back"},
                   !["d"].abs = IF @ = <<>> THEN @ ELSE SubSeq(@, 1, Len(@) - 1),
                   !["d"].pops = IF empty(dq["d"]) THEN @ ELSE @ + 1]
    /\ nops' = nops + 1

PopFront ==
    /\ Usable("d")
    /\ Becomes(pop_front(Here, "d"))
    /\ hist' = [hist EXCEPT
                   !["d"].ops = @ \cup {"pop_front"},
                   !["d"].abs = IF @ = <<>> THEN @ ELSE Tail(@),
                   !["d"].pops = IF empty(dq["d"]) THEN @ ELSE @ + 1]
    /\ nops' = nops + 1

\* o.clear()
ClearOf(o) ==
    /\ Usable(o)
    /\ Becomes(clear(Here, o))
    /\ hist' = [hist EXCEPT ![o].ops = @ \cup {"clear"}, ![o].abs = <<>>]
    /\ nops' = nops + 1

Clear == \E o \in Objs : ClearOf(o)

\* deque e(std::move(d))
MoveCtor ==
    /\ Usable("d") /\ dq["e"].st = "none"
    /\ Becomes(deque_move(Here, "e", "d"))
    /\ hist' = [hist EXCEPT !["e"] = [hist["d"] EXCEPT !.ctor = "move"],
                            !["d"].ops = @ \cup {"moved_from"},
                            !["d"].abs = <<>>]
    /\ nops' = nops + 1

\* deque e(d)
CopyCtor ==
    /\ Usable("d") /\ dq["e"].st = "none"
    /\ Becomes(deque_copy(Here, "e", "d"))
    /\ hist' = [hist EXCEPT !["e"] = [NoHist EXCEPT !.ctor = "copy",
                                                    !.abs = Iterate(dq["d"])]]
    /\ nops' = nops + 1

Dtor ==
    \E o \in Objs :
      /\ dq[o].st = "live"
      /\ Becomes(deque_dtor(Here, o))
      /\ hist' = [hist EXCEPT ![o].ops = @ \cup {"dtor"}]
      /\ UNCHANGED nops

Next ==
    \/ DefaultCtor
    \/ RangeCtor
    \/ RangeCtorAllocThrows
    \/ RangeCtorCopyThrows
    \/ PushBack
    \/ PushFront
    \/ PopBack
    \/ PopFront
    \/ Clear
    \/ MoveCtor
    \/ CopyCtor
    \/ Dtor

Spec == Init /\ [][Next]_vars


(***************************************************************************)
(* deque: construction from ranges that need more than MinMapSize map      *)
(* slots, then pushes whose buffer allocation may fail                     *)
(***************************************************************************)
LongLens == SrcLens \cup {7 * Buffer}

\* deque<T> d(first, last) for the ranges of LongLens
LongRangeCtor ==
    /\ dq["d"].st = "none"
    /\ \E n \in LongLens :
          /\ Becomes(deque_range(Here, "d", Source(n), 0, 0))
          /\ hist' = [hist EXCEPT !["d"] =
                         [NoHist EXCEPT !.ctor = "range", !.abs = Source(n),
                                        !.fresh = n + 1]]
    /\ UNCHANGED nops

GrowNext ==
    \/ DefaultCtor
    \/ LongRangeCtor
    \/ PushBack
    \/ PushFront
    \/ PushBackAllocThrows
    \/ PushFrontAllocThrows

GrowSpec == Init /\ [][GrowNext]_vars

(***************************************************************************)
(* deque: d is constructed and pushed onto, e is copy-constructed from d,  *)
(* and each is assigned to the other or to itself, by copy and by move     *)
(***************************************************************************)
\* o has been assigned from other by op
Assigned(op, o, other) ==
    [hist EXCEPT
        ![o].ops = @ \cup {op},
        ![o].abs = Iterate(dq[other]),
        ![o].held = [op |-> op, from |-> other, at |-> nops + 1,
                     map |-> dq[o].map, bufs |-> OwnedBufs(dq[o])]]

\* o = other
CopyAssign ==
    \E o, other \in Objs :
       /\ Usable(o) /\ dq[other].st = "live"
       /\ Becomes(deque_copy_assign(Here, o, other))
       /\ hist' = Assigned("copy_assign", o, other)
       /\ nops' = nops + 1

\* o = std::move(other)
MoveAssign ==
    \E o, other \in Objs :
       /\ Usable(o) /\ dq[other].st = "live"
       /\ Becomes(deque_move_assign(Here, o, other))
       /\ hist' = IF o = other THEN Assigned("move_assign", o, other)
                  ELSE [Assigned("move_assign", o, other) EXCEPT
                           ![other].ops = @ \cup {"moved_from"},
                           ![other].abs = <<>>]
       /\ nops' = nops + 1

AssignNext ==
    \/ DefaultCtor
    \/ RangeCtor
    \/ PushBack
    \/ PushFront
    \/ CopyCtor
    \/ CopyAssign
    \/ MoveAssign

AssignSpec == Init /\ [][AssignNext]_vars
(***************************************************************************)
(* deque: queue-like use, push_back and pop_front with size() bounded      *)
(***************************************************************************)
QueueValues == 1..(MaxQueue + 1)

\* deque<T> d;
QueueInit ==
    LET S == deque_default([dq |-> [o \in Objs |-> NoDeque], bufs |-> <<>>,
                            maps |-> <<>>, faults |-> {}, exc |-> FALSE], "d")
    IN  /\ dq = S.dq
        /\ bufs = S.bufs
        /\ maps = S.maps
        /\ faults = S.faults
        /\ hist = [o \in Objs |->
                      IF o = "d" THEN [NoHist EXCEPT !.ctor = "default"]
                      ELSE NoHist]
        /\ nops = 0
        /\ Idle({"deque"})

\* if (d.size() < MaxQueue) d.push_back(v);
QueuePushBack ==
    /\ nops < MaxQueueOps
    /\ size(dq["d"]) < MaxQueue
    /\ \E v \in QueueValues :
          /\ Becomes(push_back(Here, "d", v))
          /\ hist' = [hist EXCEPT !["d"].ops = @ \cup {"push_back"},
                                  !["d"].abs = Append(@, v),
                                  !["d"].pushes = @ + 1]
    /\ nops' = nops + 1

\* if (!d.empty()) d.pop_front();
QueuePopFront ==
    /\ nops < MaxQueueOps
    /\ ~empty(dq["d"])
    /\ Becomes(pop_front(Here, "d"))
    /\ hist' = [hist EXCEPT !["d"].ops = @ \cup {"pop_front"},
                            !["d"].abs = Tail(@),
                            !["d"].pops = @ + 1]
    /\ nops' = nops + 1

QueueNext ==
    \/ QueuePushBack
    \/ QueuePopFront

QueueSpec == QueueInit /\ [][QueueNext]_vars

(***************************************************************************)
(* The program for memory.hpp: one call of one uninitialized_* algorithm   *)
(* on n elements, with raw destination cells starting at d_first, in which *)
(* the failAt-th constructor call throws (0: none does).                   *)
(***************************************************************************)
Calls ==
    {[pc |-> "ready", alg |-> "none", n |-> n, d_first |-> d, failAt |-> f,
      m |-> NoMachine] :
        n \in 0..MaxLen, d \in 1..2, f \in 0..MaxLen}

UninitInit ==
    /\ Idle({"uninit"})
    /\ un \in {c \in Calls : c.failAt <= c.n}

\* the call of alg has ended with the machine state M: it has returned, or
\* the exception has left it
Ended(alg, M) ==
    /\ un.pc = "ready"
    /\ un' = [un EXCEPT !.pc = IF M.exc THEN "thrown" ELSE "returned",
                        !.alg = alg, !.m = M]
    /\ UNCHANGED not_uninit

Call_uninitialized_copy ==
    Ended("uninitialized_copy",
          uninitialized_copy(NoMachine, Source(un.n), 1, un.n + 1, un.d_first,
                             un.failAt))

Call_uninitialized_copy_n ==
    Ended("uninitialized_copy_n",
          uninitialized_copy_n(NoMachine, Source(un.n), 1, un.n, un.d_first,
                               un.failAt))

Call_uninitialized_fill ==
    \E value \in 1..2 :
       Ended("uninitialized_fill",
             uninitialized_fill(NoMachine, un.d_first, un.d_first + un.n,
                                value, un.failAt))

Call_uninitialized_fill_n ==
    \E value \in 1..2 :
       Ended("uninitialized_fill_n",
             uninitialized_fill_n(NoMachine, un.d_first, un.n, value,
                                  un.failAt))

Call_uninitialized_move ==
    Ended("uninitialized_move",
          uninitialized_move(NoMachine, Source(un.n), 1, un.n + 1, un.d_first,
                             un.failAt))

Call_uninitialized_move_n ==
    Ended("uninitialized_move_n",
          uninitialized_move_n(NoMachine, Source(un.n), 1, un.n, un.d_first,
                               un.failAt))

Call_uninitialized_default_construct ==
    Ended("uninitialized_default_construct",
          uninitialized_default_construct(NoMachine, un.d_first,
                                          un.d_first + un.n, un.failAt))

Call_uninitialized_default_construct_n ==
    Ended("uninitialized_default_construct_n",
          uninitialized_default_construct_n(NoMachine, un.d_first, un.n,
                                            un.failAt))

Call_uninitialized_value_construct ==
    Ended("uninitialized_value_construct",
          uninitialized_value_construct(NoMachine, un.d_first,
                                        un.d_first + un.n, un.failAt))

Call_uninitialized_value_construct_n ==
    Ended("uninitialized_value_construct_n",
          uninitialized_value_construct_n(NoMachine, un.d_first, un.n,
                                          un.failAt))

UninitNext ==
    \/ Call_uninitialized_copy
    \/ Call_uninitialized_copy_n
    \/ Call_uninitialized_fill
    \/ Call_uninitialized_fill_n
    \/ Call_uninitialized_move
    \/ Call_uninitialized_move_n
    \/ Call_uninitialized_default_construct
    \/ Call_uninitialized_default_construct_n
    \/ Call_uninitialized_value_construct
    \/ Call_uninitialized_value_construct_n

UninitSpec == UninitInit /\ [][UninitNext]_vars

(***************************************************************************)
(* iterator.hpp: advance.  An iterator is the index of a position in a     *)
(* range of MaxLen elements, 0 its first and MaxLen its end.               *)
(***************************************************************************)
Categories == {"input", "bidirectional", "random_access"}

\* while (n-- > 0) ++it;
RECURSIVE advance_forward(_, _)
advance_forward(it, n) ==
    IF n > 0 THEN advance_forward(it + 1, n - 1) ELSE it

\* while (n++ < 0) --it;
RECURSIVE advance_backward(_, _)
advance_backward(it, n) ==
    IF n < 0 THEN advance_backward(it - 1, n + 1) ELSE it

\* advance_aux(it, n, tag): it is the function's own parameter; the result
\* is the value the parameter has when the function returns
advance_aux(it, n, category) ==
    CASE category = "input" -> advance_forward(it, n)
      [] category = "bidirectional" ->
            IF n >= 0 THEN advance_forward(it, n) ELSE advance_backward(it, n)
      [] category = "random_access" -> it + n

\* advance(it, n): the parameter it is passed by value, so the function
\* works on param, a copy of the caller's iterator arg, hands the copy to
\* advance_aux (again by value) and returns nothing
advance(arg, n, category) ==
    LET param == arg
    IN  [it |-> arg, param |-> advance_aux(param, n, category)]

\* the calls advance(it, n) whose n steps stay inside the range
AdvanceCalls ==
    {[pc |-> "ready", category |-> c, it |-> i, n |-> k, first |-> i,
      param |-> 0] :
        c \in Categories, i \in 0..MaxLen, k \in (0 - MaxLen)..MaxLen}

AdvanceInit ==
    /\ Idle({"advance"})
    /\ adv \in {c \in AdvanceCalls :
                  /\ c.it + c.n \in 0..MaxLen
                  /\ c.category = "input" => c.n >= 0}

Call_advance ==
    /\ adv.pc = "ready"
    /\ LET R == advance(adv.it, adv.n, adv.category)
       IN  adv' = [adv EXCEPT !.pc = "returned", !.it = R.it,
                              !.param = R.param]
    /\ UNCHANGED not_advance

AdvanceNext == Call_advance

AdvanceSpec == AdvanceInit /\ [][AdvanceNext]_vars

(***************************************************************************)
(* vector (vector.hpp) over tiny_stl::allocator.  The heap is the row of   *)
(* addresses 1..HeapSize, 0 is nullptr; a pointer is an address, and       *)
(* pointer arithmetic and size_type arithmetic wrap at SizeTModulus.  V is *)
(* the state of one vector and of the heap: the members _begin, _end and   *)
(* _end_of_storage (eos), the content of every address (NoVal: no object), *)
(* the allocated blocks, the faults met, the exception in flight and the   *)
(* value returned.                                                         *)
(***************************************************************************)
VFault(V, f) == [V EXCEPT !.faults = @ \cup {f}]

InBlock(V, a) == \E b \in V.blocks : a \in b.base..(b.base + b.n - 1)

\* the addresses at which ::operator new can place a block of n objects
Placements(V, n) ==
    {a \in 1..HeapSize :
        /\ a + n - 1 <= HeapSize
        /\ \A k \in a..(a + n - 1) : ~InBlock(V, k)}

\* allocator::allocate(n): nullptr when n == 0, else the block ::operator
\* new returns, here the one at addr; the result is the pointer
vector_allocate(V, n, addr) ==
    IF n = 0 THEN V
    ELSE [V EXCEPT !.blocks = @ \cup {[base |-> addr, n |-> n]}]

Allocated(n, addr) == IF n = 0 THEN 0 ELSE addr

\* allocator::deallocate(p, n): assert(p != nullptr && n > 0);
\* ::operator delete(p)
vector_deallocate(V, p, n) ==
    IF p = 0 \/ n = 0 THEN VFault(V, "deallocate_assert")
    ELSE IF \E b \in V.blocks : b.base = p
    THEN LET b == CHOOSE c \in V.blocks : c.base = p
             W == [V EXCEPT
                     !.blocks = @ \ {b},
                     !.cell = [a \in 1..HeapSize |->
                                 IF a \in b.base..(b.base + b.n - 1)
                                 THEN NoVal ELSE @[a]]]
         IN  IF b.n = n THEN W ELSE VFault(W, "deallocate_other_n")
    ELSE VFault(V, "deallocate_not_allocated")

\* allocator::construct(p, value): assert(p != nullptr); new (p) T(value)
vector_construct(V, p, value) ==
    IF p = 0 THEN VFault(V, "construct_assert")
    ELSE IF ~InBlock(V, p) THEN VFault(V, "construct_outside_storage")
    ELSE [V EXCEPT !.cell[p] = value]

\* allocator::destroy(p): assert(p != nullptr); p->~T()
vector_destroy(V, p) ==
    IF p = 0 THEN VFault(V, "destroy_assert")
    ELSE IF ~InBlock(V, p) THEN VFault(V, "destroy_outside_storage")
    ELSE IF V.cell[p] = NoVal THEN VFault(V, "destroy_no_object")
    ELSE [V EXCEPT !.cell[p] = NoVal]

\* *p
VRead(V, p) == IF InBlock(V, p) THEN V.cell[p] ELSE Garbage

\* p + k
PtrAdd(p, k) == (p + k) % SizeTModulus

\* size(): _end - _begin;  capacity(): _end_of_storage - _begin
vector_size(V) == ToSizeT(V.end - V.begin)
vector_capacity(V) == ToSizeT(V.eos - V.begin)

\* vector()
vector_default(V) ==
    [V EXCEPT !.st = "live", !.begin = 0, !.end = 0, !.eos = 0]

\* for (i = 0; i < n; i++, first++) _alloc.construct(_begin + i, *first)
RECURSIVE construct_from(_, _, _, _)
construct_from(V, begin, src, i) ==
    IF i < Len(src)
    THEN construct_from(vector_construct(V, PtrAdd(begin, i), src[i + 1]),
                        begin, src, i + 1)
    ELSE V

\* vector(InputIterator first, InputIterator last), src the range
vector_range(V, src, addr) ==
    LET n == Len(src)
        begin == Allocated(n, addr)
        V1 == [vector_allocate(V, n, addr) EXCEPT
                 !.st = "live", !.begin = begin, !.end = PtrAdd(begin, n),
                 !.eos = PtrAdd(begin, n)]
    IN  construct_from(V1, begin, src, 0)

\* for (it = first; it != last; ++it) _alloc.destroy(it); a loop that
\* leaves the heap is cut off with a fault
RECURSIVE destroy_until(_, _, _)
destroy_until(V, it, last) ==
    IF it = last THEN V
    ELSE IF it \notin 1..HeapSize THEN VFault(V, "destroy_loop_leaves_heap")
    ELSE destroy_until(vector_destroy(V, it), PtrAdd(it, 1), last)

\* ~vector()
vector_dtor(V) ==
    LET V1 == destroy_until(V, V.begin, V.end)
        V2 == vector_deallocate(V1, V.begin, ToSizeT(V.eos - V.begin))
    IN  [V2 EXCEPT !.st = "dead"]

\* for (i = lo; i < hi; ++i) {
\*     _alloc.construct(new_begin + i + shift, move(_begin[i]));
\*     _alloc.destroy(_begin + i); }
\* a loop that leaves the heap is cut off with a fault
RECURSIVE relocate(_, _, _, _, _)
relocate(V, new_begin, i, hi, shift) ==
    IF i < hi /\ PtrAdd(V.begin, i) \notin 1..HeapSize
    THEN VFault(V, "relocation_leaves_heap")
    ELSE IF i < hi
    THEN LET V1 == vector_construct(V, PtrAdd(new_begin, i + shift),
                                    VRead(V, PtrAdd(V.begin, i)))
             V2 == vector_destroy(V1, PtrAdd(V.begin, i))
         IN  relocate(V2, new_begin, i + 1, hi, shift)
    ELSE V

\* capacity() ? capacity() * 2 : 1
new_capacity(V) ==
    IF vector_capacity(V) # 0 THEN ToSizeT(vector_capacity(V) * 2) ELSE 1

\* push_back(value); addr is where the new block is, if one is allocated
vector_push_back(V, value, addr) ==
    LET V5 == IF V.end = V.eos
              THEN LET cap == new_capacity(V)
                       new_begin == Allocated(cap, addr)
                       V1 == vector_allocate(V, cap, addr)
                       count == vector_size(V1)
                       V2 == relocate(V1, new_begin, 0, count, 0)
                       V3 == vector_deallocate(V2, V2.begin,
                                               ToSizeT(V2.eos - V2.begin))
                   IN  [V3 EXCEPT !.begin = new_begin,
                                  !.end = PtrAdd(new_begin, count),
                                  !.eos = PtrAdd(new_begin, cap)]
              ELSE V
        V6 == vector_construct(V5, V5.end, value)
    IN  [V6 EXCEPT !.end = PtrAdd(@, 1)]

\* pop_back()
vector_pop_back(V) ==
    IF V.begin # V.end
    THEN vector_destroy([V EXCEPT !.end = PtrAdd(@, -1)], PtrAdd(V.end, -1))
    ELSE V

\* the else branch of insert:
\* for (it = _end; it > _begin + index; --it) {
\*     _alloc.construct(it, move(*(it - 1))); _alloc.destroy(it - 1); }
\* a loop that leaves the heap is cut off with a fault
RECURSIVE shift_up(_, _, _)
shift_up(V, it, stop) ==
    IF it > stop /\ it \notin 1..HeapSize
    THEN VFault(V, "shift_leaves_heap")
    ELSE IF it > stop
    THEN LET V1 == vector_construct(V, it, VRead(V, PtrAdd(it, -1)))
             V2 == vector_destroy(V1, PtrAdd(it, -1))
         IN  shift_up(V2, PtrAdd(it, -1), stop)
    ELSE V

\* insert(position, value) with index = position - begin(); addr is where
\* the new block is, if one is allocated.  In the first branch
\* '_begin = new_begin; _end = new_begin + size() + 1;' calls size() after
\* _begin has been replaced.
vector_insert(V, index, value, addr) ==
    IF V.end = V.eos
    THEN LET cap == new_capacity(V)
             new_begin == Allocated(cap, addr)
             V1 == vector_allocate(V, cap, addr)
             V2 == relocate(V1, new_begin, 0, index, 0)
             V3 == vector_construct(V2, PtrAdd(new_begin, index), value)
             V4 == relocate(V3, new_begin, index, vector_size(V3), 1)
             V5 == vector_deallocate(V4, V4.begin, ToSizeT(V4.eos - V4.begin))
             V6 == [V5 EXCEPT !.begin = new_begin]
             V7 == [V6 EXCEPT !.end = PtrAdd(new_begin, vector_size(V6) + 1)]
         IN  [V7 EXCEPT !.eos = PtrAdd(new_begin, cap),
                        !.ret = PtrAdd(new_begin, index)]
    ELSE LET V1 == shift_up(V, V.end, PtrAdd(V.begin, index))
             V2 == vector_construct(V1, PtrAdd(V1.begin, index), value)
         IN  [V2 EXCEPT !.end = PtrAdd(@, 1),
                        !.ret = PtrAdd(V2.begin, index)]

\* at(index) without the test of index
vector_at_unchecked(V, index) ==
    [V EXCEPT !.ret = VRead(V, PtrAdd(V.begin, index))]

\* at(index): throws std::out_of_range when index >= size()
vector_at(V, index) ==
    IF index >= vector_size(V) THEN [V EXCEPT !.exc = TRUE]
    ELSE [V EXCEPT !.ret = VRead(V, PtrAdd(V.begin, index))]

\* for (i = lo; i < size(); ++i) _alloc.destroy(_begin + i); a loop that
\* leaves the heap is cut off with a fault
RECURSIVE destroy_from(_, _)
destroy_from(V, i) ==
    IF i < vector_size(V) /\ PtrAdd(V.begin, i) \notin 1..HeapSize
    THEN VFault(V, "destroy_loop_leaves_heap")
    ELSE IF i < vector_size(V)
    THEN destroy_from(vector_destroy(V, PtrAdd(V.begin, i)), i + 1)
    ELSE V

\* while (new_capacity < n) new_capacity *= 2;
RECURSIVE grow_until(_, _)
grow_until(c, n) == IF c < n THEN grow_until(ToSizeT(c * 2), n) ELSE c

\* the capacity resize(n) allocates when n > capacity()
resize_capacity(V, n) == grow_until(new_capacity(V), n)

\* for (i = size(); i < n; ++i) _alloc.construct(_end + i - size(), value);
\* size() is read anew in every turn
RECURSIVE fill_to(_, _, _, _)
fill_to(V, i, n, value) ==
    IF i < n
    THEN fill_to(vector_construct(V, PtrAdd(V.end, i - vector_size(V)),
                                  value),
                 i + 1, n, value)
    ELSE V

\* resize(n, value); addr is where the new block is, if one is allocated.
\* After '_begin = new_begin' the loop that constructs the new elements
\* starts at size(), which is then _end - new_begin.
vector_resize(V, n, value, addr) ==
    IF n < vector_size(V)
    THEN [destroy_from(V, n) EXCEPT !.end = PtrAdd(V.begin, n)]
    ELSE IF n > vector_size(V)
    THEN LET V5 == IF n > vector_capacity(V)
                   THEN LET cap == resize_capacity(V, n)
                            new_begin == Allocated(cap, addr)
                            V1 == vector_allocate(V, cap, addr)
                            V2 == relocate(V1, new_begin, 0, vector_size(V1),
                                           0)
                            V3 == vector_deallocate(
                                      V2, V2.begin, ToSizeT(V2.eos - V2.begin))
                        IN  [V3 EXCEPT !.begin = new_begin,
                                       !.eos = PtrAdd(new_begin, cap)]
                   ELSE V
             V6 == fill_to(V5, vector_size(V5), n, value)
         IN  [V6 EXCEPT !.end = PtrAdd(V6.begin, n)]
    ELSE V

\* reserve(n); addr is where the new block is, if one is allocated.
\* '_begin = new_begin; ...; _end = _begin + size();' calls size() after
\* _begin has been replaced.
vector_reserve(V, n, addr) ==
    IF n > vector_capacity(V)
    THEN LET new_begin == Allocated(n, addr)
             V1 == vector_allocate(V, n, addr)
             V2 == relocate(V1, new_begin, 0, vector_size(V1), 0)
             V3 == vector_deallocate(V2, V2.begin, ToSizeT(V2.eos - V2.begin))
             V4 == [V3 EXCEPT !.begin = new_begin,
                              !.eos = PtrAdd(new_begin, n)]
         IN  [V4 EXCEPT !.end = PtrAdd(V4.begin, vector_size(V4))]
    ELSE V

(***************************************************************************)
(* array<T, ArrayN> (array.hpp).  A is the state of one array: its _data,  *)
(* the exception in flight and the value returned.                         *)
(***************************************************************************)
\* for (auto&& v : list) _data[i++] = v;
array_fill(A, list) ==
    [A EXCEPT !.data = [i \in 0..(ArrayN - 1) |-> list[i + 1]]]

\* array(std::initializer_list<value_type> list): an exception leaves the
\* constructor and there is no array
array_list(A, list) ==
    IF Len(list) # ArrayN THEN [A EXCEPT !.exc = TRUE]
    ELSE [array_fill(A, list) EXCEPT !.st = "live"]

\* operator=(std::initializer_list<value_type> list)
array_assign_list(A, list) ==
    IF Len(list) # ArrayN THEN [A EXCEPT !.exc = TRUE]
    ELSE array_fill(A, list)

\* at(index)
array_at(A, index) ==
    IF index >= ArrayN THEN [A EXCEPT !.exc = TRUE]
    ELSE [A EXCEPT !.ret = A.data[index]]

(***************************************************************************)
(* Program: one vector or one array.  vec.last and arr.op, arr.index,      *)
(* arr.len, arr.was are the caller's record of the last call and of the    *)
(* state it was made in.                                                   *)
(***************************************************************************)
\* the elements [begin(), end()) of the vector, or Garbage when the range
\* is not inside the heap
VContents(V) ==
    LET n == vector_size(V)
    IN  IF n = 0 THEN <<>>
        ELSE IF V.begin >= 1 /\ V.begin + n - 1 <= HeapSize
        THEN [k \in 1..n |-> V.cell[V.begin + k - 1]]
        ELSE <<Garbage>>

\* indices handed to at(): inside, outside, and size_type(-1)
Indices == 0..(ArrayN + 1) \cup {SizeTModulus - 1}

\* where a block of n objects can be placed (nowhere when none is needed)
Where(V, n) == IF n = 0 THEN {0} ELSE Placements(V, n)

\* the vector has made the call op and is now W
VecCalled(op, W, index, value) ==
    /\ vec' = [W EXCEPT
                 !.ops = @ \cup {op},
                 !.nops = @ + 1,
                 !.last = [op |-> op, index |-> index, value |-> value,
                           size |-> vector_size(vec),
                           elems |-> VContents(vec),
                           grew |-> vec.end = vec.eos,
                           begin |-> vec.begin, end |-> vec.end,
                           eos |-> vec.eos, cell |-> vec.cell,
                           blocks |-> vec.blocks]]
    /\ UNCHANGED <<arr, not_vector>>

\* the vector before a call: no exception in flight, nothing returned
VecReady == [vec EXCEPT !.exc = FALSE, !.ret = 0]

VecUsable == vec.st = "live" /\ vec.nops < MaxVecOps

VecDefaultCtor ==
    /\ vec.st = "none" /\ arr.st = "none"
    /\ vec' = [vector_default(vec) EXCEPT !.last.op = "vector()"]
    /\ UNCHANGED <<arr, not_vector>>

VecRangeCtor ==
    /\ vec.st = "none" /\ arr.st = "none"
    /\ \E n \in 0..2 : \E addr \in Where(vec, n) :
          vec' = [vector_range(vec, [i \in 1..n |-> i], addr) EXCEPT
                    !.last.op = "vector(first, last)"]
    /\ UNCHANGED <<arr, not_vector>>

VecPushBack ==
    /\ VecUsable
    /\ \E addr \in Where(vec, IF vec.end = vec.eos THEN new_capacity(vec)
                              ELSE 0) :
          VecCalled("push_back",
                    vector_push_back(VecReady, 10 + vec.nops, addr),
                    0, 10 + vec.nops)

VecPopBack ==
    /\ VecUsable
    /\ VecCalled("pop_back", vector_pop_back(VecReady), 0, 0)

VecInsert ==
    /\ VecUsable
    /\ \E index \in {i \in 0..HeapSize : i <= vector_size(vec)} :
       \E addr \in Where(vec, IF vec.end = vec.eos THEN new_capacity(vec)
                              ELSE 0) :
          VecCalled("insert",
                    vector_insert(VecReady, index, 10 + vec.nops, addr),
                    index, 10 + vec.nops)

VecAt ==
    /\ VecUsable
    /\ \E index \in Indices :
          VecCalled("at", vector_at(VecReady, index), index, 0)

VecDtor ==
    /\ vec.st = "live"
    /\ vec' = [vector_dtor(VecReady) EXCEPT !.last.op = "~vector"]
    /\ UNCHANGED <<arr, not_vector>>

\* the initializer lists handed to the array
Lists == {[i \in 1..len |-> base + i] : len \in 0..(ArrayN + 1),
                                         base \in {0, 10}}

\* the array has made the call op and is now B
ArrCalled(op, B, index, len) ==
    /\ arr' = [B EXCEPT !.op = op, !.index = index, !.len = len,
                        !.was = arr.data]
    /\ UNCHANGED <<vec, not_vector>>

ArrReady == [arr EXCEPT !.exc = FALSE, !.ret = 0]

ArrayListCtor ==
    /\ arr.st = "none" /\ vec.st = "none"
    /\ \E list \in Lists :
          ArrCalled("array(list)", array_list(ArrReady, list), 0, Len(list))

ArrayAssignList ==
    /\ arr.st = "live"
    /\ \E list \in Lists :
          ArrCalled("=(list)", array_assign_list(ArrReady, list), 0,
                    Len(list))

ArrayAt ==
    /\ arr.st = "live"
    /\ \E index \in Indices :
          ArrCalled("at", array_at(ArrReady, index), index, 0)

VectorInit == Idle({})

VectorNext ==
    \/ VecDefaultCtor
    \/ VecRangeCtor
    \/ VecPushBack
    \/ VecPopBack
    \/ VecInsert
    \/ VecAt
    \/ VecDtor
    \/ ArrayListCtor
    \/ ArrayAssignList
    \/ ArrayAt

VectorSpec == VectorInit /\ [][VectorNext]_vars

(***************************************************************************)
(* Program: one vector whose storage is also changed by reserve and        *)
(* resize.  vec.last.index is the n handed to the call, vec.last.value the *)
(* value handed to resize.                                                 *)
(***************************************************************************)
\* the n handed to reserve and resize
Requests == 0..(HeapSize - 2)

VecReserve ==
    /\ VecUsable
    /\ \E n \in Requests :
       \E addr \in Where(vec, IF n > vector_capacity(vec) THEN n ELSE 0) :
          VecCalled("reserve", vector_reserve(VecReady, n, addr), n, 0)

VecResize ==
    /\ VecUsable
    /\ \E n \in Requests :
       \E addr \in Where(vec, IF n > vector_size(vec)
                                 /\ n > vector_capacity(vec)
                              THEN resize_capacity(vec, n) ELSE 0) :
          VecCalled("resize",
                    vector_resize(VecReady, n, 20 + vec.nops, addr),
                    n, 20 + vec.nops)

StorageNext ==
    \/ VecDefaultCtor
    \/ VecRangeCtor
    \/ VecPushBack
    \/ VecPopBack
    \/ VecReserve
    \/ VecResize
    \/ VecDtor

StorageSpec == VectorInit /\ [][StorageNext]_vars

(***************************************************************************)
(* shared_ptr (shared_ptr.hpp).  P is the state of the shared_ptr          *)
(* variables and of the heap: for each variable its ptr_ and ctrl_block_   *)
(* (0: nullptr), the control blocks allocated so far with their ref_count_ *)
(* and ptr_ and the number of times each was deleted, and for each object  *)
(* allocated the number of times it was deleted.                           *)
(***************************************************************************)
PFault(P, f) == [P EXCEPT !.faults = @ \cup {f}]

\* a copy that leaves ref_count_ as it is
increment_forgotten(P, c) == P

\* control_block::increment(): ref_count_.fetch_add(1)
increment(P, c) ==
    IF P.blocks[c].deleted > 0 THEN PFault(P, "control_block_used_after_delete")
    ELSE [P EXCEPT !.blocks[c].ref_count_ = ToSizeT(@ + 1)]

\* control_block::decrement(): ref_count_.fetch_sub(1) - 1; the result is
\* the ref_count_ of block c afterwards
decrement(P, c) ==
    IF P.blocks[c].deleted > 0 THEN PFault(P, "control_block_used_after_delete")
    ELSE [P EXCEPT !.blocks[c].ref_count_ = ToSizeT(@ - 1)]

\* delete ctrl_block_: ~object_control_block() does delete ptr_
delete_control_block(P, c) ==
    [P EXCEPT !.blocks[c].deleted = @ + 1,
              !.objs[P.blocks[c].ptr_] = @ + 1]

\* create_control_block()
create_control_block(P, x) ==
    IF P.p[x].ptr_ # 0
    THEN [P EXCEPT
            !.blocks = Append(@, [ref_count_ |-> 1, ptr_ |-> P.p[x].ptr_,
                                  deleted |-> 0]),
            !.p[x].ctrl_block_ = Len(P.blocks) + 1]
    ELSE P

\* release() that drops the control block without counting down
shared_release_forgets(P, x) ==
    [P EXCEPT !.p[x].ctrl_block_ = 0, !.p[x].ptr_ = 0]

\* release()
shared_release(P, x) ==
    LET c == P.p[x].ctrl_block_
    IN  IF c # 0
        THEN LET P1 == decrement(P, c)
                 P2 == IF P1.blocks[c].ref_count_ = 0
                       THEN delete_control_block(P1, c)
                       ELSE P1
             IN  [P2 EXCEPT !.p[x].ctrl_block_ = 0, !.p[x].ptr_ = 0]
        ELSE P

\* shared_ptr()
shared_default(P, x) ==
    [P EXCEPT !.p[x] = [st |-> "live", ptr_ |-> 0, ctrl_block_ |-> 0]]

\* make_shared<T>(args): shared_ptr<T>(new T(args))
make_shared(P, x) ==
    LET P1 == [P EXCEPT !.objs = Append(@, 0)]
        P2 == [P1 EXCEPT !.p[x] = [st |-> "live", ptr_ |-> Len(P1.objs),
                                   ctrl_block_ |-> 0]]
    IN  create_control_block(P2, x)

\* shared_ptr(const shared_ptr& other)
shared_copy(P, x, other) ==
    LET P1 == [P EXCEPT !.p[x] = [st |-> "live", ptr_ |-> P.p[other].ptr_,
                                  ctrl_block_ |-> P.p[other].ctrl_block_]]
    IN  IF P1.p[x].ctrl_block_ # 0
        THEN increment(P1, P1.p[x].ctrl_block_)
        ELSE P1

\* shared_ptr(shared_ptr&& other)
shared_move(P, x, other) ==
    [P EXCEPT !.p[x] = [st |-> "live", ptr_ |-> P.p[other].ptr_,
                        ctrl_block_ |-> P.p[other].ctrl_block_],
              !.p[other].ptr_ = 0,
              !.p[other].ctrl_block_ = 0]

\* ~shared_ptr()
shared_dtor(P, x) == [shared_release(P, x) EXCEPT !.p[x].st = "dead"]

\* operator=(const shared_ptr& other)
shared_copy_assign(P, x, other) ==
    IF x # other
    THEN LET P1 == shared_release(P, x)
             P2 == [P1 EXCEPT !.p[x].ptr_ = P1.p[other].ptr_,
                              !.p[x].ctrl_block_ = P1.p[other].ctrl_block_]
         IN  IF P2.p[x].ctrl_block_ # 0
             THEN increment(P2, P2.p[x].ctrl_block_)
             ELSE P2
    ELSE P

\* operator=(shared_ptr&& other)
shared_move_assign(P, x, other) ==
    IF x # other
    THEN LET P1 == shared_release(P, x)
         IN  [P1 EXCEPT !.p[x].ptr_ = P1.p[other].ptr_,
                        !.p[other].ptr_ = 0,
                        !.p[x].ctrl_block_ = P1.p[other].ctrl_block_,
                        !.p[other].ctrl_block_ = 0]
    ELSE P

\* reset(ptr) with ptr nullptr (fresh FALSE) or a new object (fresh TRUE)
shared_reset(P, x, fresh) ==
    LET P1 == shared_release(P, x)
        P2 == IF fresh THEN [P1 EXCEPT !.objs = Append(@, 0)] ELSE P1
        P3 == [P2 EXCEPT !.p[x].ptr_ = IF fresh THEN Len(P2.objs) ELSE 0]
    IN  create_control_block(P3, x)

\* use_count()
use_count(P, x) ==
    IF P.p[x].ctrl_block_ # 0
    THEN P.blocks[P.p[x].ctrl_block_].ref_count_
    ELSE 0

(***************************************************************************)
(* Program: shared_ptr variables p, q, r, each constructed once and        *)
(* destroyed once, and at most MaxPtrOps calls in all.                     *)
(***************************************************************************)
SharedCalled(P) ==
    /\ sptr.nops < MaxPtrOps
    /\ sptr' = [P EXCEPT !.nops = @ + 1]
    /\ UNCHANGED not_shared

SharedLive(x) == sptr.p[x].st = "live"
SharedNone(x) == sptr.p[x].st = "none"

SharedDefault == \E x \in Ptrs : SharedNone(x) /\ SharedCalled(shared_default(sptr, x))

SharedMake == \E x \in Ptrs : SharedNone(x) /\ SharedCalled(make_shared(sptr, x))

SharedCopy ==
    \E x, y \in Ptrs :
        SharedNone(x) /\ SharedLive(y) /\ SharedCalled(shared_copy(sptr, x, y))

SharedMove ==
    \E x, y \in Ptrs :
        SharedNone(x) /\ SharedLive(y) /\ SharedCalled(shared_move(sptr, x, y))

SharedCopyAssign ==
    \E x, y \in Ptrs :
        /\ SharedLive(x) /\ SharedLive(y)
        /\ SharedCalled(shared_copy_assign(sptr, x, y))

SharedMoveAssign ==
    \E x, y \in Ptrs :
        /\ SharedLive(x) /\ SharedLive(y)
        /\ SharedCalled(shared_move_assign(sptr, x, y))

SharedReset ==
    \E x \in Ptrs, fresh \in BOOLEAN :
        SharedLive(x) /\ SharedCalled(shared_reset(sptr, x, fresh))

SharedDtor == \E x \in Ptrs : SharedLive(x) /\ SharedCalled(shared_dtor(sptr, x))

SharedInit == Idle({})

SharedNext ==
    \/ SharedDefault
    \/ SharedMake
    \/ SharedCopy
    \/ SharedMove
    \/ SharedCopyAssign
    \/ SharedMoveAssign
    \/ SharedReset
    \/ SharedDtor

SharedSpec == SharedInit /\ [][SharedNext]_vars

(***************************************************************************)
(* Program: threads that share one control block.  Each thread starts with *)
(* one shared_ptr of its own to the same object, copy-constructs further   *)
(* ones from a live one of its own and destroys its own, every variable    *)
(* being constructed once and destroyed once, the variables of a thread in *)
(* their order of declaration.  A step of a thread is a                    *)
(* member initialisation, an atomic operation on ref_count_, the delete,   *)
(* or the final assignments of release().  For each thread pc is where it  *)
(* is, cur the variable it is working on, ret what decrement() returned    *)
(* to it in the release() it is in; zero_by are the threads to which       *)
(* decrement() returned 0 and deleted_by those that ran the delete.        *)
(***************************************************************************)
RaceInit ==
    /\ sptr = [p |-> [i \in Instances |->
                        IF i[2] = 1
                        THEN [st |-> "live", ptr_ |-> 1, ctrl_block_ |-> 1]
                        ELSE [st |-> "none", ptr_ |-> 0, ctrl_block_ |-> 0]],
               blocks |-> <<[ref_count_ |-> Threads, ptr_ |-> 1,
                             deleted |-> 0]>>,
               objs |-> <<0>>, faults |-> {}, nops |-> 0,
               pc |-> [t \in ThreadIds |-> "idle"],
               cur |-> [t \in ThreadIds |-> <<t, 1>>],
               ret |-> [t \in ThreadIds |-> 0],
               zero_by |-> {}, deleted_by |-> {}]
    /\ Idle({"shared"})

RaceStep(P) == sptr' = P /\ UNCHANGED not_shared

\* shared_ptr(const shared_ptr& other), the member initialisers:
\* ptr_(other.ptr_), ctrl_block_(other.ctrl_block_)
RaceCopyMembers(t) ==
    /\ sptr.pc[t] = "idle"
    /\ \E x, other \in {i \in Instances : i[1] = t} :
          /\ sptr.p[x].st = "none" /\ sptr.p[other].st = "live"
          /\ \A k \in 1..(x[2] - 1) : sptr.p[<<t, k>>].st # "none"
          /\ RaceStep([sptr EXCEPT
                 !.p[x] = [st |-> "constructing",
                           ptr_ |-> sptr.p[other].ptr_,
                           ctrl_block_ |-> sptr.p[other].ctrl_block_],
                 !.pc[t] = "copy", !.cur[t] = x])

\* shared_ptr(const shared_ptr& other), the body:
\* if (ctrl_block_) ctrl_block_->increment();
RaceCopyIncrement(t) ==
    /\ sptr.pc[t] = "copy"
    /\ LET x == sptr.cur[t]
           c == sptr.p[x].ctrl_block_
           P1 == IF c # 0 THEN increment(sptr, c) ELSE sptr
       IN  RaceStep([P1 EXCEPT !.p[x].st = "live", !.pc[t] = "idle"])

\* use_count() of a shared_ptr of the thread: a load of ref_count_, whose
\* value the thread does not keep
RaceUseCount(t) ==
    /\ sptr.pc[t] = "idle"
    /\ \E x \in {i \in Instances : i[1] = t} :
          /\ sptr.p[x].st = "live"
          /\ LET c == sptr.p[x].ctrl_block_
                 P1 == IF c # 0 /\ sptr.blocks[c].deleted > 0
                       THEN PFault(sptr, "control_block_used_after_delete")
                       ELSE sptr
             IN  RaceStep(P1)

\* ~shared_ptr(), release(): if (ctrl_block_) ... ctrl_block_->decrement()
RaceReleaseDecrement(t) ==
    /\ sptr.pc[t] = "idle"
    /\ \E x \in {i \in Instances : i[1] = t} :
          /\ sptr.p[x].st = "live"
          /\ LET c == sptr.p[x].ctrl_block_
                 P1 == IF c # 0 THEN decrement(sptr, c) ELSE sptr
                 r == IF c # 0 THEN P1.blocks[c].ref_count_ ELSE 0
             IN  RaceStep([P1 EXCEPT
                    !.p[x].st = "releasing", !.cur[t] = x, !.ret[t] = r,
                    !.zero_by = IF c # 0 /\ r = 0 THEN @ \cup {t} ELSE @,
                    !.pc[t] = IF c = 0 THEN "released"
                              ELSE IF r = 0 THEN "delete" ELSE "clear"])

\* release(): delete ctrl_block_;
RaceReleaseDelete(t) ==
    /\ sptr.pc[t] = "delete"
    /\ RaceStep([delete_control_block(sptr, sptr.p[sptr.cur[t]].ctrl_block_)
                    EXCEPT !.deleted_by = @ \cup {t}, !.pc[t] = "clear"])

\* release(): ctrl_block_ = nullptr; ptr_ = nullptr;  and the end of the
\* destructor
RaceReleaseClear(t) ==
    /\ sptr.pc[t] \in {"clear", "released"}
    /\ RaceStep([sptr EXCEPT
           !.p[sptr.cur[t]] = [st |-> "dead", ptr_ |-> 0, ctrl_block_ |-> 0],
           !.ret[t] = 0, !.pc[t] = "idle"])

RaceNext ==
    \E t \in ThreadIds :
       \/ RaceCopyMembers(t)
       \/ RaceCopyIncrement(t)
       \/ RaceUseCount(t)
       \/ RaceReleaseDecrement(t)
       \/ RaceReleaseDelete(t)
       \/ RaceReleaseClear(t)

RaceSpec == RaceInit /\ [][RaceNext]_vars

(***************************************************************************)
(* unique_ptr (unique_ptr.hpp).  U is the state of the unique_ptr          *)
(* variables and of the heap: for each variable its ptr_ (0: nullptr), and *)
(* for each object allocated the number of times it was deleted.           *)
(***************************************************************************)
\* release(): exchange(ptr_, nullptr); the pointer returned is the ptr_ of
\* x before
unique_release(U, x) == [U EXCEPT !.p[x].ptr_ = 0]

\* reset(new_ptr) that does not delete the object held before
unique_reset_leaks(U, x, new_ptr) == [U EXCEPT !.p[x].ptr_ = new_ptr]

\* reset(new_ptr)
unique_reset(U, x, new_ptr) ==
    LET old_ptr == U.p[x].ptr_
        U1 == [U EXCEPT !.p[x].ptr_ = new_ptr]
    IN  IF old_ptr # 0 THEN [U1 EXCEPT !.objs[old_ptr] = @ + 1] ELSE U1

\* make_unique<T>(args): unique_ptr<T>(new T(args))
make_unique(U, x) ==
    LET U1 == [U EXCEPT !.objs = Append(@, 0)]
    IN  [U1 EXCEPT !.p[x] = [st |-> "live", ptr_ |-> Len(U1.objs)]]

\* unique_ptr(unique_ptr&& other): ptr_(other.release())
unique_move(U, x, other) ==
    [unique_release(U, other) EXCEPT
       !.p[x] = [st |-> "live", ptr_ |-> U.p[other].ptr_]]

\* operator=(unique_ptr&& other): reset(other.release())
unique_move_assign(U, x, other) ==
    unique_reset(unique_release(U, other), x, U.p[other].ptr_)

\* ~unique_ptr(): reset()
unique_dtor(U, x) == [unique_reset(U, x, 0) EXCEPT !.p[x].st = "dead"]

\* operator bool()
unique_bool(U, x) == U.p[x].ptr_ # 0

(***************************************************************************)
(* Program: unique_ptr variables p, q, r, each constructed once and        *)
(* destroyed once, and at most MaxPtrOps calls in all.  uptr.last is the   *)
(* caller's record of the last call: the call, its destination and source  *)
(* and the pointer the source held.                                        *)
(***************************************************************************)
UniqueCalled(U, op, x, y) ==
    /\ uptr.nops < MaxPtrOps
    /\ uptr' = [U EXCEPT !.nops = @ + 1,
                         !.last = [op |-> op, dst |-> x, src |-> y,
                                   was |-> uptr.p[y].ptr_]]
    /\ UNCHANGED not_unique

UniqueLive(x) == uptr.p[x].st = "live"
UniqueNone(x) == uptr.p[x].st = "none"

UniqueMake ==
    \E x \in Ptrs :
        UniqueNone(x) /\ UniqueCalled(make_unique(uptr, x), "make", x, x)

UniqueMove ==
    \E x, y \in Ptrs :
        /\ UniqueNone(x) /\ UniqueLive(y)
        /\ UniqueCalled(unique_move(uptr, x, y), "move", x, y)

UniqueMoveAssign ==
    \E x, y \in Ptrs :
        /\ UniqueLive(x) /\ UniqueLive(y)
        /\ UniqueCalled(unique_move_assign(uptr, x, y), "move_assign", x, y)

UniqueReset ==
    \E x \in Ptrs :
        UniqueLive(x) /\ UniqueCalled(unique_reset(uptr, x, 0), "reset", x, x)

UniqueDtor ==
    \E x \in Ptrs :
        UniqueLive(x) /\ UniqueCalled(unique_dtor(uptr, x), "dtor", x, x)

UniqueInit == Idle({})

UniqueNext ==
    \/ UniqueMake
    \/ UniqueMove
    \/ UniqueMoveAssign
    \/ UniqueReset
    \/ UniqueDtor

UniqueSpec == UniqueInit /\ [][UniqueNext]_vars

(***************************************************************************)
(* list (list.hpp).  L is the state of the lists and of the heap: for each *)
(* list its member node, the sentinel; the nodes allocated so far, a       *)
(* pointer being the index of a node and 0 nullptr, with for each node its *)
(* prev, next and value, whether it is allocated and whether a node has    *)
(* been constructed in it; the faults met and the value returned.          *)
(***************************************************************************)
LFault(L, f) == [L EXCEPT !.faults = @ \cup {f}]

ValidNode(L, p) == p \in 1..Len(L.nodes) /\ L.nodes[p].alloc

\* p->next, p->prev, p->value
NextOf(L, p) == IF ValidNode(L, p) THEN L.nodes[p].next ELSE 0
PrevOf(L, p) == IF ValidNode(L, p) THEN L.nodes[p].prev ELSE 0
ValueOf(L, p) == IF ValidNode(L, p) THEN L.nodes[p].value ELSE Garbage

\* p->next = q;  p->prev = q;
SetNext(L, p, q) ==
    IF ValidNode(L, p) THEN [L EXCEPT !.nodes[p].next = q]
    ELSE LFault(L, "write_outside_a_node")

SetPrev(L, p, q) ==
    IF ValidNode(L, p) THEN [L EXCEPT !.nodes[p].prev = q]
    ELSE LFault(L, "write_outside_a_node")

\* get_node(): alloc.allocate(1); the new node is Len(nodes) of the result
get_node(L) ==
    [L EXCEPT !.nodes = Append(@, [alloc |-> TRUE, built |-> FALSE,
                                   prev |-> 0, next |-> 0,
                                   value |-> NoVal])]

\* put_node(p): alloc.deallocate(p, 1); nothing of the node can be read
\* afterwards
put_node(L, p) ==
    IF ValidNode(L, p)
    THEN [L EXCEPT !.nodes[p] = [alloc |-> FALSE, built |-> FALSE,
                                 prev |-> 0, next |-> 0, value |-> NoVal]]
    ELSE LFault(L, "deallocate_not_allocated")

\* create_node(x): the new node, {nullptr, nullptr, x}, is Len(nodes) of
\* the result
create_node(L, x) ==
    LET L1 == get_node(L)
    IN  [L1 EXCEPT !.nodes[Len(L1.nodes)].built = TRUE,
                   !.nodes[Len(L1.nodes)].value = x]

\* destroy_node(p): alloc.destroy(p); put_node(p);
destroy_node(L, p) ==
    IF ValidNode(L, p)
    THEN put_node([L EXCEPT !.nodes[p].built = FALSE,
                            !.nodes[p].value = NoVal], p)
    ELSE LFault(L, "destroy_outside_a_node")

\* transfer(pos, first, last) that unlinks [first, last) and links it in
\* nowhere
transfer_unlinks(L, pos, first, last) ==
    IF pos = last \/ first = last THEN L
    ELSE LET l == PrevOf(L, last)
             L1 == SetNext(L, PrevOf(L, first), NextOf(L, l))
         IN  SetPrev(L1, NextOf(L1, l), PrevOf(L1, first))

\* transfer(pos, first, last)
transfer(L, pos, first, last) ==
    IF pos = last \/ first = last THEN L
    ELSE LET f == first
             l == PrevOf(L, last)
             L1 == SetNext(L, PrevOf(L, f), NextOf(L, l))
             L2 == SetPrev(L1, NextOf(L1, l), PrevOf(L1, f))
             p == pos
             L3 == SetNext(L2, l, p)
             L4 == SetPrev(L3, f, PrevOf(L3, p))
             L5 == SetNext(L4, PrevOf(L4, p), f)
         IN  SetPrev(L5, p, l)

\* insert_aux(pos, x)
insert_aux(L, pos, x) ==
    LET L1 == create_node(L, x)
        new_node == Len(L1.nodes)
        L2 == SetNext(L1, new_node, pos)
        L3 == SetPrev(L2, new_node, PrevOf(L2, pos))
        L4 == SetNext(L3, PrevOf(L3, pos), new_node)
    IN  SetPrev(L4, pos, new_node)

\* empty_initialize()
empty_initialize(L, o) ==
    LET L1 == get_node(L)
        node == Len(L1.nodes)
    IN  SetPrev(SetNext([L1 EXCEPT !.node[o] = node, !.st[o] = "live"],
                        node, node),
                node, node)

\* list()
list_default(L, o) == empty_initialize(L, o)

\* the loop of list(InputIterator first, InputIterator last):
\* for (; first != last; first++) { new_node = create_node(*first); ... }
RECURSIVE list_range_loop(_, _, _, _)
list_range_loop(L, current, src, i) ==
    IF i > Len(src) THEN L
    ELSE LET L1 == create_node(L, src[i])
             new_node == Len(L1.nodes)
             L2 == SetPrev(L1, new_node, current)
             L3 == SetNext(L2, new_node, NextOf(L2, current))
             L4 == SetPrev(L3, NextOf(L3, current), new_node)
             L5 == SetNext(L4, current, new_node)
         IN  list_range_loop(L5, new_node, src, i + 1)

\* list(InputIterator first, InputIterator last) on the source sequence src
list_range(L, o, src) ==
    LET L1 == empty_initialize(L, o)
    IN  IF src = <<>> THEN L1
        ELSE list_range_loop(L1, L1.node[o], src, 1)

\* the loop of clear(): while (cur != node) { tmp = cur; cur = cur->next;
\* destroy_node(tmp); }; a loop that has not met node after fuel turns
\* never will
RECURSIVE list_clear_loop(_, _, _, _)
list_clear_loop(L, node, cur, fuel) ==
    IF cur = node THEN L
    ELSE IF fuel = 0 THEN LFault(L, "clear_runaway")
    ELSE list_clear_loop(destroy_node(L, cur), node, NextOf(L, cur),
                         fuel - 1)

\* clear()
list_clear(L, o) ==
    LET node == L.node[o]
        L1 == list_clear_loop(L, node, NextOf(L, node), Len(L.nodes) + 1)
    IN  SetPrev(SetNext(L1, node, node), node, node)

\* begin(), end(), empty()
list_begin(L, o) == NextOf(L, L.node[o])
list_end(L, o) == L.node[o]
list_empty(L, o) == NextOf(L, L.node[o]) = L.node[o]

\* the loop of size(): while (it != end()) { ++it; ++result; }; a loop that
\* has not met end() after fuel turns never will, and size() does not
\* return
RECURSIVE list_size_loop(_, _, _, _)
list_size_loop(L, it, end, fuel) ==
    IF it = end THEN 0
    ELSE IF fuel = 0 THEN Garbage
    ELSE LET rest == list_size_loop(L, NextOf(L, it), end, fuel - 1)
         IN  IF rest = Garbage THEN Garbage ELSE rest + 1

\* size()
list_size(L, o) ==
    list_size_loop(L, list_begin(L, o), list_end(L, o), Len(L.nodes) + 1)

\* erase(position); the result is the iterator returned
list_erase(L, position) ==
    LET next_node == NextOf(L, position)
        prev_node == PrevOf(L, position)
        L1 == SetNext(L, prev_node, next_node)
        L2 == SetPrev(L1, next_node, prev_node)
    IN  [destroy_node(L2, position) EXCEPT !.ret = next_node]

\* insert(position, x); the result is the iterator returned, --position
list_insert(L, position, x) ==
    LET L1 == insert_aux(L, position, x)
    IN  [L1 EXCEPT !.ret = PrevOf(L1, position)]

\* push_back(x), push_front(x), pop_front(), pop_back()
list_push_back(L, o, x) == insert_aux(L, L.node[o], x)
list_push_front(L, o, x) == insert_aux(L, NextOf(L, L.node[o]), x)
list_pop_front(L, o) == list_erase(L, list_begin(L, o))
list_pop_back(L, o) == list_erase(L, PrevOf(L, list_end(L, o)))

\* splice(pos, x)
list_splice(L, pos, x) ==
    IF ~list_empty(L, x)
    THEN transfer(L, pos, list_begin(L, x), list_end(L, x))
    ELSE L

\* splice(pos, i)
list_splice_one(L, pos, i) ==
    LET j == NextOf(L, i)
    IN  IF pos = i \/ pos = j THEN L ELSE transfer(L, pos, i, j)

\* splice(pos, first, last)
list_splice_range(L, pos, first, last) ==
    IF first # last THEN transfer(L, pos, first, last) ELSE L

\* the loop of reverse(): while (first != end()) { old = first; ++first;
\* transfer(begin(), old, first); }
RECURSIVE list_reverse_loop(_, _, _, _)
list_reverse_loop(L, o, first, fuel) ==
    IF first = list_end(L, o) THEN L
    ELSE IF fuel = 0 THEN LFault(L, "reverse_runaway")
    ELSE LET old == first
             next == NextOf(L, first)
         IN  list_reverse_loop(transfer(L, list_begin(L, o), old, next),
                               o, next, fuel - 1)

\* reverse()
list_reverse(L, o) ==
    LET node == L.node[o]
    IN  IF NextOf(L, node) = node \/ NextOf(L, NextOf(L, node)) = node
        THEN L
        ELSE list_reverse_loop(L, o, NextOf(L, list_begin(L, o)),
                               Len(L.nodes) + 1)

\* a comparison that ranks equal elements of x before those of *this
less_equal(x, y) == x <= y

\* less<T>
less(x, y) == x < y

\* the loop of merge(x, comp) with comp = less<T>:
\* while (first1 != last1 && first2 != last2) ...
RECURSIVE list_merge_loop(_, _, _, _, _, _)
list_merge_loop(L, first1, last1, first2, last2, fuel) ==
    IF first1 # last1 /\ first2 # last2
    THEN IF fuel = 0 THEN LFault(L, "merge_runaway")
         ELSE IF less(ValueOf(L, first2), ValueOf(L, first1))
         THEN LET next == NextOf(L, first2)
              IN  list_merge_loop(transfer(L, first1, first2, next),
                                  first1, last1, next, last2, fuel - 1)
         ELSE list_merge_loop(L, NextOf(L, first1), last1, first2, last2,
                              fuel - 1)
    ELSE IF first2 # last2 THEN transfer(L, last1, first2, last2)
    ELSE L

\* merge(x, comp) of the list o with the list x
list_merge(L, o, x) ==
    LET L1 == list_merge_loop(L, list_begin(L, o), list_end(L, o),
                              list_begin(L, x), list_end(L, x),
                              2 * Len(L.nodes) + 1)
    IN  list_clear(L1, x)

(***************************************************************************)
(* Program: the lists a and b are constructed and used, every call being   *)
(* made with arguments the call is defined for: a pop on a list that is    *)
(* not empty, erase on an iterator to an element, splice from another      *)
(* list or with a position outside the range moved.  lst.cnt is the        *)
(* caller's count of the elements each list should hold and lst.last the   *)
(* last call, the list it was made on and the range handed to it.          *)
(***************************************************************************)
\* the nodes met walking from it to end with ++, at most fuel of them
RECURSIVE NodesFrom(_, _, _, _)
NodesFrom(L, it, end, fuel) ==
    IF it = end \/ fuel = 0 THEN <<>>
    ELSE <<it>> \o NodesFrom(L, NextOf(L, it), end, fuel - 1)

\* the element nodes of the list o in order, begin() to end()
ListNodes(L, o) ==
    NodesFrom(L, list_begin(L, o), list_end(L, o), Len(L.nodes) + 1)

Range(seq) == {seq[k] : k \in 1..Len(seq)}

\* the iterators into the list o: to its elements, and end()
Elements(o) == Range(ListNodes(lst, o))
Positions(o) == Elements(o) \cup {lst.node[o]}

ListLive(o) == lst.st[o] = "live"
ListUsable(o) == ListLive(o) /\ lst.nops < MaxListOps

ListReady == [lst EXCEPT !.ret = 0]

\* the call op has been made on the list o, which leaves the heap as M and
\* the lists with cnt elements
ListCalled(op, o, M, cnt) ==
    /\ lst' = [M EXCEPT !.nops = @ + 1, !.cnt = cnt,
                        !.last = [op |-> op, on |-> o, src |-> <<>>]]
    /\ UNCHANGED not_list

\* the caller's count after o has gained n elements
Gained(o, n) == [lst.cnt EXCEPT ![o] = @ + n]

\* the caller's count after n elements have gone from x to o
Moved(o, x, n) ==
    [c \in Lsts |-> lst.cnt[c] + (IF c = o THEN n ELSE 0)
                               - (IF c = x THEN n ELSE 0)]

\* the lists are declared in the order a, b
Declared(o) == o = "b" => lst.st["a"] # "none"

ListDefaultCtor ==
    \E o \in Lsts :
       /\ lst.st[o] = "none" /\ Declared(o)
       /\ lst' = [list_default(ListReady, o) EXCEPT
                     !.last = [op |-> "list()", on |-> o, src |-> <<>>]]
       /\ UNCHANGED not_list

ListRangeCtor ==
    \E o \in Lsts, n \in 0..MaxListLen :
       LET src == [i \in 1..n |-> i]
       IN  /\ lst.st[o] = "none" /\ Declared(o)
           /\ lst' = [list_range(ListReady, o, src) EXCEPT
                         !.cnt[o] = n,
                         !.last = [op |-> "list(first, last)", on |-> o,
                                   src |-> src]]
           /\ UNCHANGED not_list

ListPushBack ==
    \E o \in Lsts :
       /\ ListUsable(o)
       /\ ListCalled("push_back", o,
                     list_push_back(ListReady, o, 10 + lst.nops),
                     Gained(o, 1))

ListPushFront ==
    \E o \in Lsts :
       /\ ListUsable(o)
       /\ ListCalled("push_front", o,
                     list_push_front(ListReady, o, 10 + lst.nops),
                     Gained(o, 1))

\* if (!o.empty()) o.pop_back();
ListPopBack ==
    \E o \in Lsts :
       /\ ListUsable(o) /\ ~list_empty(lst, o)
       /\ ListCalled("pop_back", o, list_pop_back(ListReady, o),
                     Gained(o, -1))

\* if (!o.empty()) o.pop_front();
ListPopFront ==
    \E o \in Lsts :
       /\ ListUsable(o) /\ ~list_empty(lst, o)
       /\ ListCalled("pop_front", o, list_pop_front(ListReady, o),
                     Gained(o, -1))

ListInsert ==
    \E o \in Lsts :
       /\ ListUsable(o)
       /\ \E position \in Positions(o) :
             ListCalled("insert", o,
                        list_insert(ListReady, position, 10 + lst.nops),
                        Gained(o, 1))

ListErase ==
    \E o \in Lsts :
       /\ ListUsable(o)
       /\ \E position \in Elements(o) :
             ListCalled("erase", o, list_erase(ListReady, position),
                        Gained(o, -1))

\* o.splice(pos, x) with another list x
ListSplice ==
    \E o \in Lsts, x \in Lsts :
       /\ ListUsable(o) /\ ListLive(x) /\ x # o
       /\ \E pos \in Positions(o) :
             ListCalled("splice", o, list_splice(ListReady, pos, x),
                        Moved(o, x, lst.cnt[x]))

\* o.splice(pos, i) with i an iterator to an element of x, which may be o
ListSpliceOne ==
    \E o \in Lsts, x \in Lsts :
       /\ ListUsable(o) /\ ListLive(x)
       /\ \E pos \in Positions(o), i \in Elements(x) :
             ListCalled("splice_one", o, list_splice_one(ListReady, pos, i),
                        Moved(o, x, 1))

\* o.splice(pos, first, last) with [first, last) a range of x, which may be
\* o, and pos not in the range
ListSpliceRange ==
    \E o \in Lsts, x \in Lsts :
       /\ ListUsable(o) /\ ListLive(x)
       /\ LET xs == ListNodes(lst, x) \o <<lst.node[x]>>
          IN  \E pos \in Positions(o), i \in 1..Len(xs), j \in 1..Len(xs) :
                 /\ i <= j
                 /\ \A k \in i..(j - 1) : xs[k] # pos
                 /\ ListCalled("splice_range", o,
                               list_splice_range(ListReady, pos, xs[i],
                                                 xs[j]),
                               Moved(o, x, j - i))

ListReverse ==
    \E o \in Lsts :
       /\ ListUsable(o)
       /\ ListCalled("reverse", o, list_reverse(ListReady, o), lst.cnt)

ListClear ==
    \E o \in Lsts :
       /\ ListUsable(o)
       /\ ListCalled("clear", o, list_clear(ListReady, o),
                     [lst.cnt EXCEPT ![o] = 0])

ListInit == Idle({})

ListNext ==
    \/ ListDefaultCtor
    \/ ListRangeCtor
    \/ ListPushBack
    \/ ListPushFront
    \/ ListPopBack
    \/ ListPopFront
    \/ ListInsert
    \/ ListErase
    \/ ListSplice
    \/ ListSpliceOne
    \/ ListSpliceRange
    \/ ListReverse
    \/ ListClear

ListSpec == ListInit /\ [][ListNext]_vars

(***************************************************************************)
(* Program: the lists a and b are constructed from sorted ranges and       *)
(* merged into one another.  lst.last records of a merge the list merged   *)
(* into (on), the list merged from (from), the nodes each held in order    *)
(* (mine, theirs) and the nodes as they were before the call (heap).       *)
(***************************************************************************)
\* the values of the elements
MergeValues == 1..(MaxListLen + 1)

\* the ranges sorted by less<T> of at most MaxListLen elements
SortedRanges ==
    UNION {{src \in [1..n -> MergeValues] :
               \A k \in 1..(n - 1) : ~less(src[k + 1], src[k])} :
           n \in 0..MaxListLen}

SortedRangeCtor ==
    \E o \in Lsts, src \in SortedRanges :
       /\ lst.st[o] = "none" /\ Declared(o)
       /\ lst' = [list_range(ListReady, o, src) EXCEPT
                     !.cnt[o] = Len(src),
                     !.last = [op |-> "list(first, last)", on |-> o,
                               src |-> src]]
       /\ UNCHANGED not_list

\* o.merge(x, less<T>()) with another list x
ListMerge ==
    \E o \in Lsts, x \in Lsts :
       /\ ListUsable(o) /\ ListLive(x) /\ x # o
       /\ lst' = [list_merge(ListReady, o, x) EXCEPT
                     !.nops = @ + 1,
                     !.cnt = Moved(o, x, lst.cnt[x]),
                     !.last = [op |-> "merge", on |-> o, src |-> <<>>,
                               from |-> x,
                               mine |-> ListNodes(lst, o),
                               theirs |-> ListNodes(lst, x),
                               heap |-> lst.nodes]]
       /\ UNCHANGED not_list

MergeNext ==
    \/ SortedRangeCtor
    \/ ListMerge

MergeSpec == ListInit /\ [][MergeNext]_vars

(***************************************************************************)
(* Properties                                                              *)
(***************************************************************************)
PushOps == {"push_back", "push_front"}
PushPopOps == {"push_back", "push_front", "pop_back", "pop_front"}

\* C1: starting from a default-constructed deque, after any interleaved
\* sequence of push_back, push_front, pop_back and pop_front, size() equals
\* the number of pushes minus the number of effective pops.
C1_SizeIsPushesMinusPops ==
    (/\ dq["d"].st = "live"
     /\ hist["d"].ctor = "default"
     /\ hist["d"].ops \subseteq PushPopOps)
    => size(dq["d"]) = hist["d"].pushes - hist["d"].pops

\* C1, the case the claim is about: pushes and at least one effective pop
\* on a default-constructed deque
C1_Witness ==
    /\ dq["d"].st = "live"
    /\ hist["d"].ctor = "default"
    /\ hist["d"].ops \subseteq PushPopOps
    /\ hist["d"].pushes > 0
    /\ hist["d"].pops > 0

MemoryFaults ==
    {"construct_unowned", "construct_out_of_buffer", "construct_on_live",
     "destroy_unowned", "destroy_out_of_buffer", "destroy_not_live"}

\* C2: during any interleaved sequence of pushes and pops no construct
\* writes outside a live buffer or onto a live element, no destroy targets
\* a slot without a live element, and begin and end never reference a
\* deallocated buffer.
C2_NoDestroyedOrUnownedMemory ==
    (/\ dq["d"].st = "live"
     /\ hist["d"].ctor \in {"default", "range"}
     /\ hist["d"].ops \subseteq PushPopOps)
    => /\ faults \cap MemoryFaults = {}
       /\ ValidBuf(bufs, dq["d"].begin.first)
       /\ ValidBuf(bufs, dq["d"].end.first)

\* C3: for a deque built from a range and then subjected to any sequence of
\* push_back and push_front, iterating begin()..end() yields the sequence
\* of the reference deque.
C3_PushesMatchReference ==
    (/\ dq["d"].st = "live"
     /\ hist["d"].ctor = "range"
     /\ hist["d"].ops \subseteq PushOps)
    => Iterate(dq["d"]) = hist["d"].abs

\* C3, the case: both kinds of push applied to a range-built deque, with a
\* map reallocation on the way
C3_Witness ==
    /\ dq["d"].st = "live"
    /\ hist["d"].ctor = "range"
    /\ hist["d"].ops = PushOps
    /\ Len(maps) > 1
    /\ dq["d"].end.node - dq["d"].begin.node > 1

\* operator[](n): *(_begin + n)
At(d, n) == Deref(bufs, IterAdd(maps, d.map, d.begin, n))

\* C4: d[i] returns the i-th element in iteration order for every
\* 0 <= i < size(), also when the element is stored in the first slot of a
\* later buffer than begin's.
C4_IndexReturnsIthElement ==
    (/\ dq["d"].st = "live"
     /\ hist["d"].ctor \in {"default", "range"}
     /\ hist["d"].ops \subseteq PushOps)
    => \A i \in 0..(Len(hist["d"].abs) - 1) :
           At(dq["d"], i) = hist["d"].abs[i + 1]

\* C4, the case: two push_back calls whose second element opens a buffer
C4_Witness ==
    /\ dq["d"].st = "live"
    /\ hist["d"].ops = {"push_back"}
    /\ hist["d"].pushes > 1
    /\ dq["d"].end.node > dq["d"].begin.node
    /\ dq["d"].end.cur = 1

\* C5: constructing a deque from a source range and iterating it reproduces
\* the source sequence, and size() is the source length.
C5_RangeRoundTrip ==
    (/\ dq["d"].st = "live"
     /\ hist["d"].ctor = "range"
     /\ hist["d"].ops = {})
    => /\ Iterate(dq["d"]) = hist["d"].abs
       /\ size(dq["d"]) = Len(hist["d"].abs)

\* C5, the case: a source of two full buffers
C5_Witness ==
    /\ dq["d"].st = "live"
    /\ hist["d"].ctor = "range"
    /\ hist["d"].ops = {}
    /\ Len(hist["d"].abs) = 2 * Buffer

\* it after k applications of ++
RECURSIVE Nth(_, _, _, _)
Nth(ms, m, it, k) == IF k = 0 THEN it ELSE Nth(ms, m, IterInc(ms, m, it), k - 1)

\* the k-th iterator of d counted from begin()
Pos(d, k) == Nth(maps, d.map, d.begin, k)

\* end() is met after Len(Iterate(d)) steps of ++ from begin()
EndReached(d) ==
    LET e == Pos(d, Len(Iterate(d)))
    IN  IterEq(e, d.end) /\ e.node = d.end.node

\* C6: for iterators it_a, it_b of one deque with it_b reachable from it_a,
\* it_b - it_a equals the number of ++ steps that take it_a to it_b.
C6_DifferenceCountsSteps ==
    (dq["d"].st = "live" /\ dq["d"].map # 0 /\ EndReached(dq["d"]))
    => \A a, b \in 0..Len(Iterate(dq["d"])) :
           a <= b => IterDiff(Pos(dq["d"], b), Pos(dq["d"], a)) = b - a

\* C6, the case: iterators in one buffer, in adjacent buffers and in buffers
\* further apart
C6_Witness ==
    /\ dq["d"].st = "live" /\ dq["d"].map # 0 /\ EndReached(dq["d"])
    /\ dq["d"].end.node - dq["d"].begin.node > 2
    /\ dq["d"].begin.cur > 0
    /\ dq["d"].end.cur > 0

LiveMaps == {m \in 1..Len(maps) : maps[m].alloc}

\* C7: repeated push_back beyond the initial map capacity preserves the
\* elements in insertion order, and every map but the current one has been
\* deallocated, exactly once.
C7_MapReallocationKeepsElements ==
    (/\ dq["d"].st = "live"
     /\ dq["e"].st = "none"
     /\ hist["d"].ctor \in {"default", "range"}
     /\ hist["d"].ops \subseteq {"push_back"})
    => /\ Iterate(dq["d"]) = hist["d"].abs
       /\ LiveMaps = {dq["d"].map}
       /\ "dealloc_twice" \notin faults

\* C7, the case: push_back has made reallocate_map allocate a new map
C7_Witness ==
    /\ dq["d"].st = "live"
    /\ dq["e"].st = "none"
    /\ hist["d"].ops = {"push_back"}
    /\ Len(maps) > 1
    /\ dq["d"].map = Len(maps)

\* C8: after move-constructing a deque from d, d.size() == 0 and
\* d.begin() == d.end(), and no later operation on d touches what the new
\* deque owns.
C8_MovedFromIsEmpty ==
    (/\ dq["d"].st = "live"
     /\ "moved_from" \in hist["d"].ops
     /\ hist["d"].ops \subseteq PushOps \cup {"moved_from", "clear"})
    => /\ size(dq["d"]) = 0
       /\ empty(dq["d"])
       /\ dq["d"].map = 0
       /\ faults = {}

\* C8, the case: a deque with elements has been moved from
C8_Witness ==
    /\ dq["d"].st = "live"
    /\ "moved_from" \in hist["d"].ops
    /\ dq["e"].st = "live"
    /\ hist["e"].abs # <<>>

\* C9: when the destructors have run, every buffer that was allocated and
\* every map have been deallocated.
C9_DestructorReleasesEverything ==
    (/\ dq["d"].st = "dead"
     /\ dq["e"].st \in {"none", "dead"}
     /\ hist["d"].ops \cup hist["e"].ops
            \subseteq PushOps \cup {"moved_from", "clear", "dtor"})
    => /\ \A b \in 1..Len(bufs) : ~bufs[b].alloc
       /\ \A m \in 1..Len(maps) : ~maps[m].alloc

\* C9, the case: a deque that held elements in several buffers is destroyed
C9_Witness ==
    /\ dq["d"].st = "dead"
    /\ dq["e"].st = "none"
    /\ hist["d"].ops = {"push_back", "dtor"}
    /\ Len(bufs) > 2

\* C10: if a buffer allocation or an element copy fails during range
\* construction, nothing the failed construction allocated stays allocated.
C10_FailedConstructionReleasesAll ==
    dq["d"].st = "failed"
    => /\ \A b \in 1..Len(bufs) : ~bufs[b].alloc
       /\ \A m \in 1..Len(maps) : ~maps[m].alloc

\* C10, the case: the failure comes after a buffer has been allocated
C10_Witness ==
    /\ dq["d"].st = "failed"
    /\ Len(bufs) > 0

\* the slots of all buffers that hold a live element
LiveSlots(bs) ==
    {<<b, i>> \in (1..Len(bs)) \X (0..(Buffer - 1)) : bs[b].slot[i] # NoVal}

AllocatedBufs(bs) == {b \in 1..Len(bs) : bs[b].alloc}

\* C11: clear() is idempotent: on an empty deque it changes nothing, and on
\* any deque every call of clear() leaves size() == 0, destroys no element a
\* second time and deallocates no buffer a second time.
C11_ClearIsIdempotent ==
    [][\A o \in Objs :
          ClearOf(o)
          => /\ size(dq'[o]) = 0
             /\ empty(dq[o]) => (dq' = dq /\ bufs' = bufs /\ maps' = maps)
             /\ faults' \ faults = {}]_vars

\* C11, the case: clear() is called on a deque that a clear() has emptied
C11_Witness ==
    \E o \in Objs :
       /\ dq[o].st = "live"
       /\ "clear" \in hist[o].ops
       /\ empty(dq[o])
       /\ ENABLED ClearOf(o)

\* the slots clear() has to destroy: [begin.cur, begin.last) of the first
\* buffer, every slot of the buffers strictly between, [end.first, end.cur)
\* of the last
SlotsInRange(d) ==
    IF d.begin.node = d.end.node
    THEN {<<d.begin.first, i>> : i \in d.begin.cur..(d.end.cur - 1)}
    ELSE {<<d.begin.first, i>> : i \in d.begin.cur..(d.begin.last - 1)}
         \cup {<<MapRead(maps, d.map, k), i>> :
                    k \in (d.begin.node + 1)..(d.end.node - 1),
                    i \in 0..(Buffer - 1)}
         \cup {<<d.end.first, i>> : i \in 0..(d.end.cur - 1)}

\* C12: clear() on a deque reached by pushes destroys every live element
\* exactly once (the slots of SlotsInRange), deallocates every owned buffer
\* except exactly one, and leaves end == begin.
C12_ClearDestroysAllKeepsOneBuffer ==
    [][(/\ ClearOf("d")
        /\ dq["e"].st = "none"
        /\ hist["d"].ctor \in {"default", "range"}
        /\ hist["d"].ops \subseteq PushOps)
       => /\ LiveSlots(bufs) = SlotsInRange(dq["d"])
          /\ LiveSlots(bufs') = {}
          /\ faults' = faults
          /\ AllocatedBufs(bufs') = {dq["d"].begin.first}
          /\ dq'["d"].end = dq'["d"].begin
          /\ dq'["d"].begin = dq["d"].begin]_vars

\* C12, the case: clear() has run on a deque of pushed elements in more
\* than two buffers, the middle ones and the last one are deallocated
C12_Witness ==
    /\ dq["d"].st = "live"
    /\ dq["e"].st = "none"
    /\ hist["d"].ctor \in {"default", "range"}
    /\ hist["d"].ops \subseteq PushOps \cup {"clear"}
    /\ "clear" \in hist["d"].ops
    /\ hist["d"].pushes > 0
    /\ dq["d"].end = dq["d"].begin
    /\ Cardinality(AllocatedBufs(bufs)) = 1
    /\ Len(bufs) > 3

\* d was built by a constructor and has seen pushes and pops only
PushPopDeque ==
    /\ hist["d"].ctor \in {"default", "range"}
    /\ hist["d"].ops \subseteq PushPopOps

\* C13: on a non-empty deque pop_back() removes exactly the last element
\* and pop_front() exactly the first: the remaining elements keep values
\* and order, the opposite boundary iterator is unchanged, size() is one
\* smaller, and when the removed element was the last one of its buffer the
\* emptied buffer is deallocated and the boundary iterator moves to the
\* adjacent buffer.
C13_PopRemovesOneEnd ==
    [][/\ (PopBack /\ PushPopDeque /\ ~empty(dq["d"]))
          => /\ Iterate(dq["d"])' = hist'["d"].abs
             /\ dq'["d"].begin = dq["d"].begin
             /\ size(dq'["d"]) = size(dq["d"]) - 1
             /\ dq["d"].end.cur = 0
                  => /\ ~ValidBuf(bufs', dq["d"].end.first)
                     /\ dq'["d"].end.node = dq["d"].end.node - 1
       /\ (PopFront /\ PushPopDeque /\ ~empty(dq["d"]))
          => /\ Iterate(dq["d"])' = hist'["d"].abs
             /\ dq'["d"].end = dq["d"].end
             /\ size(dq'["d"]) = size(dq["d"]) - 1
             /\ dq["d"].begin.cur = Buffer - 1
                  => /\ ~ValidBuf(bufs', dq["d"].begin.first)
                     /\ dq'["d"].begin.node = dq["d"].begin.node + 1
                     /\ dq'["d"].begin.cur = 0]_vars

\* C13, the case: a pop has removed the last element of a buffer, so the
\* boundary iterator has changed its node
C13_Witness ==
    /\ dq["d"].st = "live"
    /\ hist["d"].ctor = "range"
    /\ hist["d"].ops \in {{"pop_back"}, {"pop_front"}}
    /\ hist["d"].pops = 1
    /\ Len(hist["d"].abs) = Buffer

\* d was built by a constructor and has seen pushes only
PushDeque ==
    /\ dq["d"].st = "live"
    /\ hist["d"].ctor \in {"default", "range"}
    /\ hist["d"].ops \subseteq PushOps

\* C14 as stated: in every state after construction and after each
\* completed push or pop the map has at least one unused slot before
\* begin's node and at least one after end's node.
C14_SpareSlotOnBothSides ==
    (dq["d"].st = "live" /\ PushPopDeque)
    => /\ dq["d"].begin.node >= 1
       /\ dq["d"].end.node <= dq["d"].map_size - 2

\* C14, amended: construction leaves at least one unused map slot on each
\* side; pushes may use the spare slots up, but after every completed push
\* begin's and end's nodes lie inside the map, in order, and every map slot
\* from begin's node to end's node refers to an allocated buffer.
C14_NodesStayInsideMap ==
    PushDeque
    => /\ 0 <= dq["d"].begin.node
       /\ dq["d"].begin.node <= dq["d"].end.node
       /\ dq["d"].end.node <= dq["d"].map_size - 1
       /\ hist["d"].ops = {} => /\ dq["d"].begin.node >= 1
                                /\ dq["d"].end.node <= dq["d"].map_size - 2
       /\ ValidMap(maps, dq["d"].map)
       /\ maps[dq["d"].map].size = dq["d"].map_size
       /\ \A k \in dq["d"].begin.node..dq["d"].end.node :
              ValidBuf(bufs, MapRead(maps, dq["d"].map, k))

\* C14, the case: pushes have used up the spare slot on one side of the map
C14_Witness ==
    /\ PushDeque
    /\ hist["d"].pushes > 0
    /\ \/ dq["d"].begin.node = 0
       \/ dq["d"].end.node = dq["d"].map_size - 1

\* cur lies in [first, last) of the buffer that the map slot of it.node
\* refers to
InBuffer(d, it) ==
    /\ it.cur \in 0..(it.last - 1)
    /\ it.last = Buffer
    /\ it.first = MapRead(maps, d.map, it.node)
    /\ ValidBuf(bufs, it.first)

\* number of elements between begin() and end()
Count(d) == Len(Iterate(d))

\* C15: every iterator produced from begin() or end() by a completed ++,
\* --, +=, -=, + or - that stays within [begin(), end()] has its current
\* pointer inside [first, last) of the buffer of its node; current == last
\* never survives the end of an operation.
C15_CurrentStaysInsideBuffer ==
    (PushDeque /\ EndReached(dq["d"]))
    => LET d == dq["d"]
       IN  \A k \in 0..Count(d) :
              /\ k < Count(d) => InBuffer(d, IterInc(maps, d.map, Pos(d, k)))
              /\ k > 0 => InBuffer(d, IterDec(maps, d.map, Pos(d, k)))
              /\ \A n \in (-k)..(Count(d) - k) :
                     InBuffer(d, IterAdd(maps, d.map, Pos(d, k), n))

\* C15, the case: the deque holds a position one buffer length after
\* another one
C15_Witness ==
    /\ PushDeque /\ EndReached(dq["d"])
    /\ hist["d"].pushes > 0
    /\ Count(dq["d"]) >= Buffer

\* C16: for a valid iterator it and every n >= 0 with it + n within the
\* deque, it += n yields the same (node, current) as n applications of ++,
\* (it + n) == the n times incremented iterator, begin() + size() == end(),
\* and the plain pointer adjustment is used only when cur - first + n lies
\* in [0, buffer_size).
C16_AddEqualsRepeatedIncrement ==
    (PushDeque /\ EndReached(dq["d"]))
    => LET d == dq["d"]
       IN  /\ \A k \in 0..Count(d) : \A n \in 0..(Count(d) - k) :
                 LET it == Pos(d, k)
                     sum == IterAdd(maps, d.map, it, n)
                 IN  /\ sum.node = Pos(d, k + n).node
                     /\ sum.cur = Pos(d, k + n).cur
                     /\ IterEq(sum, Pos(d, k + n))
                     /\ sum.node = it.node => it.cur + n \in 0..(Buffer - 1)
           /\ IterEq(IterAdd(maps, d.map, d.begin, size(d)), d.end)

\* C16, the case: an addition that lands exactly one buffer length after
\* the start of a buffer
C16_Witness ==
    /\ PushDeque /\ EndReached(dq["d"])
    /\ dq["d"].begin.cur = 0
    /\ dq["d"].end.node > dq["d"].begin.node
    /\ hist["d"].ops = {"push_back"}

\* it after k applications of --
RECURSIVE NthDec(_, _, _, _)
NthDec(ms, m, it, k) ==
    IF k = 0 THEN it ELSE NthDec(ms, m, IterDec(ms, m, it), k - 1)

\* back(): *(_end - 1)
back(d) == Deref(bufs, IterAdd(maps, d.map, d.end, -1))

\* C17: for a valid iterator it and every n > 0 with it - n within the
\* deque, it -= n yields the same (node, current) as n applications of --:
\* the node offset is the floor of (cur - first - n) / buffer_size and
\* current is first plus the non-negative remainder.
C17_SubtractEqualsRepeatedDecrement ==
    (PushDeque /\ EndReached(dq["d"]))
    => LET d == dq["d"]
       IN  /\ \A k \in 0..Count(d) : \A n \in 1..k :
                 LET it == Pos(d, k)
                     dif == IterAdd(maps, d.map, it, -n)
                 IN  /\ dif = NthDec(maps, d.map, it, n)
                     /\ dif.node = it.node + ((it.cur - n) \div Buffer)
                     /\ dif.cur = (it.cur - n) % Buffer
                     /\ dif = Pos(d, k - n)
           /\ Count(d) > 0 => back(d) = hist["d"].abs[Count(d)]

\* C17, the case: subtractions from end() that go back over more than one
\* buffer boundary, from the first slot of a buffer and from a later slot
C17_Witness ==
    /\ PushDeque /\ EndReached(dq["d"])
    /\ dq["d"].end.node - dq["d"].begin.node > 1
    /\ dq["d"].end.cur = 0
    /\ dq["d"].begin.cur > 0
    /\ hist["d"].ops = PushOps

\* what the deque o is made of: its members, its map and the contents of
\* its buffers; the element sequence and size() are functions of these
View(o) ==
    [members |-> dq[o],
     map |-> IF ValidMap(maps, dq[o].map) THEN maps[dq[o].map].slot ELSE <<>>,
     store |-> [b \in OwnedBufs(dq[o]) \cap (1..Len(bufs)) |-> bufs[b]]]

\* e is a live copy of the live deque d
Copied ==
    /\ hist["e"].ctor = "copy"
    /\ dq["e"].st = "live"
    /\ dq["d"].st = "live"

\* C18: copy-constructing e from d allocates a map and buffers disjoint
\* from d's and yields the same element sequence; afterwards a push, pop or
\* clear on either deque leaves the other deque's sequence, size and
\* buffers unchanged.  (hist["e"].abs is the sequence d held when it was
\* copied.  A step that sets e's constructor record is the copy; a later
\* step that leaves e's record alone is an operation on d; a step that
\* adds clear to e's record is e.clear().)
C18_CopyIsDeepAndIndependent ==
    [][/\ (hist["e"].ctor = "none" /\ hist'["e"].ctor = "copy")
          => /\ dq'["e"].st = "live"
             /\ size(dq'["e"]) = size(dq["d"])
             /\ dq'["e"].map # dq'["d"].map
             /\ OwnedBufs(dq["e"])' \cap OwnedBufs(dq["d"])' = {}
             /\ View("d")' = View("d")
             /\ faults' = faults
       /\ (Copied /\ hist["e"].ops = {})
          => /\ Iterate(dq["e"]) = hist["e"].abs
             /\ size(dq["e"]) = Len(hist["e"].abs)
       /\ (Copied /\ Copied' /\ hist'["e"] = hist["e"])
          => View("e")' = View("e")
       /\ (Copied /\ Copied' /\ "clear" \notin hist["e"].ops
                            /\ "clear" \in hist'["e"].ops)
          => View("d")' = View("d")]_vars

\* C18, the case: the source of a copy of several buffers has been changed
\* after the copy was made
C18_Witness ==
    /\ Copied
    /\ Len(hist["e"].abs) > Buffer
    /\ hist["d"].abs # hist["e"].abs

\* C19: in every reachable state of a live deque the buffers that are
\* allocated and not yet deallocated are exactly the buffers that the map
\* slots from begin's node to end's node refer to: no buffer outside that
\* range stays allocated and no slot in the range refers to a deallocated
\* buffer.
C19_AllocatedBuffersAreTheMappedOnes ==
    (/\ dq["d"].st = "live"
     /\ dq["e"].st = "none"
     /\ hist["d"].ctor \in {"default", "range"}
     /\ hist["d"].ops \subseteq PushPopOps \cup {"clear"})
    => /\ AllocatedBufs(bufs) = OwnedBufs(dq["d"])
       /\ \A k \in dq["d"].begin.node..dq["d"].end.node :
              ValidBuf(bufs, MapRead(maps, dq["d"].map, k))

\* C19, the case: a pop has emptied a buffer at one end of a deque that
\* spans several buffers
C19_Witness ==
    /\ dq["d"].st = "live"
    /\ dq["e"].st = "none"
    /\ hist["d"].ctor = "range"
    /\ hist["d"].ops = {"pop_front"}
    /\ hist["d"].pops = Buffer
    /\ Len(hist["d"].abs) > Buffer

IsConstruct(e) == e.ev = "construct"
IsDestroy(e) == e.ev = "destroy"

\* the cells named by the events of a log, in the order of the log
Places(log) == [i \in 1..Len(log) |-> log[i].at]

\* the cells d_first, d_first + 1, ... of the first k destination elements
FirstCells(d_first, k) == [i \in 1..k |-> d_first + i - 1]

\* C20: if the construction of the i-th destination element fails in an
\* uninitialized_* algorithm, exactly the i elements already constructed in
\* [d_first, current) are destroyed, each once and in forward order, then
\* the failure is signalled again to the caller, and no destination element
\* is left constructed.  (failAt counts constructor calls from 1, so
\* failAt - 1 elements have been constructed.)
C20_FailureDestroysWhatWasBuilt ==
    (un.pc \in {"returned", "thrown"} /\ un.failAt > 0)
    => /\ un.pc = "thrown"
       /\ un.m.current = un.d_first + un.failAt - 1
       /\ Places(SelectSeq(un.m.log, IsConstruct))
              = FirstCells(un.d_first, un.failAt - 1)
       /\ Places(SelectSeq(un.m.log, IsDestroy))
              = FirstCells(un.d_first, un.failAt - 1)
       /\ Len(un.m.log) = 2 * (un.failAt - 1)
       /\ SubSeq(un.m.log, 1, un.failAt - 1)
              = SelectSeq(un.m.log, IsConstruct)
       /\ \A p \in Cells : un.m.cell[p] = Raw

\* C20, the case: the last of MaxLen constructor calls has thrown, after
\* several elements had been constructed
C20_Witness ==
    /\ un.pc = "thrown"
    /\ un.failAt = MaxLen
    /\ un.failAt > 2
    /\ un.alg = "uninitialized_move_n"

\* C27: ++ and -- are mutual inverses across buffer boundaries: for every
\* valid iterator it with a valid successor --(++it) has the same (node,
\* current) as it, for every valid it with a valid predecessor ++(--it)
\* has the same (node, current) as it, and -- at current == first switches
\* to the previous node and lands on last - 1 of that buffer.
C27_IncrementAndDecrementAreInverse ==
    (PushDeque /\ EndReached(dq["d"]))
    => LET d == dq["d"]
       IN  \A k \in 0..Count(d) :
              LET it == Pos(d, k)
                  up == IterInc(maps, d.map, it)
                  down == IterDec(maps, d.map, it)
              IN  /\ k < Count(d) => IterDec(maps, d.map, up) = it
                  /\ k > 0 => IterInc(maps, d.map, down) = it
                  /\ (k > 0 /\ it.cur = 0)
                       => /\ down.node = it.node - 1
                          /\ down.first = MapRead(maps, d.map, it.node - 1)
                          /\ down.cur = down.last - 1

\* C27, the case: positions at the first and at the last slot of buffers
\* inside a deque of several buffers
C27_Witness ==
    /\ PushDeque /\ EndReached(dq["d"])
    /\ dq["d"].end.node - dq["d"].begin.node > 1
    /\ dq["d"].begin.cur = Buffer - 1
    /\ dq["d"].end.cur = 0
    /\ hist["d"].ops = {"push_front"}

\* C28: after initialize_map_and_nodes(n): num_nodes = n / buffer_size + 1,
\* map_size = max(8, num_nodes + 2), the active nodes occupy the slots
\* [(map_size - num_nodes) / 2, (map_size - num_nodes) / 2 + num_nodes)
\* with at least one unused slot on each side, one buffer is allocated per
\* active node, begin is at the first slot of the first active buffer, end
\* at offset n mod buffer_size of the last active buffer, and size() == n.
C28_InitialMapLayout ==
    (/\ dq["d"].st = "live"
     /\ dq["e"].st = "none"
     /\ hist["d"].ctor \in {"default", "range"}
     /\ hist["d"].ops = {})
    => LET d == dq["d"]
           n == Len(hist["d"].abs)
           num_nodes == n \div Buffer + 1
           msize == IF num_nodes + 2 > MinMapSize THEN num_nodes + 2
                    ELSE MinMapSize
           nstart == (msize - num_nodes) \div 2
       IN  /\ d.map_size = msize
           /\ ValidMap(maps, d.map) /\ maps[d.map].size = msize
           /\ d.begin.node = nstart
           /\ d.end.node = nstart + num_nodes - 1
           /\ nstart >= 1
           /\ nstart + num_nodes <= msize - 1
           /\ \A k \in nstart..(nstart + num_nodes - 1) :
                  ValidBuf(bufs, MapRead(maps, d.map, k))
           /\ Cardinality(OwnedBufs(d)) = num_nodes
           /\ AllocatedBufs(bufs) = OwnedBufs(d)
           /\ d.begin.first = MapRead(maps, d.map, nstart)
           /\ d.begin.cur = 0
           /\ d.end.first = MapRead(maps, d.map, nstart + num_nodes - 1)
           /\ d.end.cur = n % Buffer
           /\ d.begin.last = Buffer /\ d.end.last = Buffer
           /\ size(d) = n

\* C28, the case: so many elements that the map is larger than the minimum
C28_Witness ==
    /\ dq["d"].st = "live"
    /\ dq["e"].st = "none"
    /\ hist["d"].ctor = "range"
    /\ hist["d"].ops = {}
    /\ Len(hist["d"].abs) = 7 * Buffer
    /\ dq["d"].map_size > MinMapSize

\* the slot end points to, and the slot begin points to
EndSlot(d) == <<d.end.first, d.end.cur>>
BeginSlot(d) == <<d.begin.first, d.begin.cur>>

\* C29: push_back constructs the element in the last slot of end's buffer
\* before it reallocates the map, allocates the new buffer and moves end;
\* push_front reserves the map slot, allocates the new buffer and moves
\* begin before it constructs the element.  So a buffer allocation that
\* fails in push_back leaves size() unchanged with one constructed element
\* beyond end, and one that fails in push_front leaves no element
\* constructed.  (The step that first adds push_back_failed or
\* push_front_failed to d's record is the push whose allocate_node throws.)
C29_PushOrderShowsOnAllocationFailure ==
    [][/\ (PushDeque /\ "push_back_failed" \in hist'["d"].ops)
          => /\ size(dq'["d"]) = size(dq["d"])
             /\ EndSlot(dq["d"])' = EndSlot(dq["d"])
             /\ BeginSlot(dq["d"])' = BeginSlot(dq["d"])
             /\ EndSlot(dq["d"]) \notin LiveSlots(bufs)
             /\ LiveSlots(bufs') = LiveSlots(bufs) \cup {EndSlot(dq["d"])}
             /\ bufs'[dq["d"].end.first].slot[dq["d"].end.cur]
                    = hist["d"].fresh
             /\ AllocatedBufs(bufs') = AllocatedBufs(bufs)
             /\ faults' = faults
       /\ (PushDeque /\ "push_front_failed" \in hist'["d"].ops)
          => /\ EndSlot(dq["d"])' = EndSlot(dq["d"])
             /\ BeginSlot(dq["d"])' = BeginSlot(dq["d"])
             /\ LiveSlots(bufs') = LiveSlots(bufs)
             /\ bufs' = bufs
             /\ faults' = faults]_vars

\* C29, the case: allocate_node has thrown in a push_back that had
\* reallocated the map before, and in a push_front
C29_Witness ==
    /\ dq["d"].st = "live"
    /\ hist["d"].ops = {"push_back", "push_back_failed", "push_front_failed"}
    /\ Len(maps) > 1
    /\ EndSlot(dq["d"]) \in LiveSlots(bufs)

\* the most nodes a deque of at most MaxQueue elements has between begin
\* and end, and the first map size, of those reallocate_map produces from
\* MinMapSize, in which one more node than that leaves the map in place
QueueNodes == 1 + (MaxQueue + Buffer - 1) \div Buffer
RECURSIVE QueueMapBound(_)
QueueMapBound(m) ==
    IF m > 2 * (QueueNodes + 1) THEN m ELSE QueueMapBound(m + Max(m, 1) + 2)

\* the buffer pointers of the active nodes, first to last
ActiveNodes(ms, d) ==
    [i \in 0..(d.end.node - d.begin.node) |->
        MapRead(ms, d.map, d.begin.node + i)]

\* C30: reallocate_map(nodes_to_add, add_at_front), called in any state of
\* a deque used as a queue, allocates no map when map_size > 2 * (active
\* nodes + nodes_to_add) and shifts the node pointers inside the map;
\* otherwise it allocates a map of old_map_size + max(old_map_size,
\* nodes_to_add) + 2 slots and releases the old one.  Either way the active
\* buffer pointers are the same in the same order, the active range lies
\* inside the map and nodes_to_add unused slots exist at the requested
\* end.  With push_back and pop_front only and size() bounded, map_size
\* stays bounded.
C30_ReallocateMapShiftsOrGrows ==
    LET d == dq["d"]
        old == d.end.node - d.begin.node + 1
    IN  /\ \A n \in 1..(MinMapSize + 1), f \in BOOLEAN :
              LET R == reallocate_map(Here, "d", n, f)
                  r == R.dq["d"]
              IN  /\ IF d.map_size > 2 * (old + n)
                     THEN /\ Len(R.maps) = Len(maps)
                          /\ r.map = d.map
                          /\ r.map_size = d.map_size
                          /\ R.maps[d.map].alloc
                     ELSE /\ Len(R.maps) = Len(maps) + 1
                          /\ r.map = Len(maps) + 1
                          /\ r.map_size = d.map_size + Max(d.map_size, n) + 2
                          /\ R.maps[r.map].alloc
                          /\ R.maps[r.map].size = r.map_size
                          /\ ~R.maps[d.map].alloc
                  /\ ActiveNodes(R.maps, r) = ActiveNodes(maps, d)
                  /\ r.begin.node >= 0
                  /\ r.end.node <= r.map_size - 1
                  /\ f => r.begin.node >= n
                  /\ ~f => r.map_size - 1 - r.end.node >= n
                  /\ EndSlot(r) = EndSlot(d) /\ BeginSlot(r) = BeginSlot(d)
                  /\ R.bufs = bufs
                  /\ R.faults = faults
        /\ d.map_size <= QueueMapBound(MinMapSize)
        /\ d.end.node <= d.map_size - 1

\* C30, the case: more elements have been pushed at the back than there
\* are slots from the first node to the end of the map, and the deque
\* still has the map it was constructed with
C30_Witness ==
    /\ hist["d"].pushes > Buffer * (MinMapSize - MinMapSize \div 2 + 1)
    /\ Len(maps) = 1
    /\ dq["d"].map_size = MinMapSize
    /\ maps[1].alloc
    /\ hist["d"].abs = Iterate(dq["d"])
    /\ Len(hist["d"].abs) = MaxQueue

\* C21: after advance(it, n) the caller's iterator it has moved by n
\* positions from where it was (forward for input iterators, forward or
\* backward for bidirectional ones, it += n for random-access ones).
C21_AdvanceMovesTheCallersIterator ==
    adv.pc = "returned" => adv.it = adv.first + adv.n

\* C21, the case: advance has returned from a call with n # 0, and the
\* copy it worked on is n positions from the caller's iterator
C21_Witness ==
    /\ adv.pc = "returned"
    /\ adv.n # 0
    /\ adv.param = adv.first + adv.n

\* the members recorded in L describe storage: no storage at all, or a
\* block from begin to eos with end inside it
WellFormed(L) ==
    \/ L.begin = 0 /\ L.end = 0 /\ L.eos = 0
    \/ /\ L.begin <= L.end /\ L.end <= L.eos
       /\ [base |-> L.begin, n |-> L.eos - L.begin] \in L.blocks

\* the vector and the heap are as the last call found them
VecUnchanged ==
    /\ vec.begin = vec.last.begin /\ vec.end = vec.last.end
    /\ vec.eos = vec.last.eos
    /\ vec.cell = vec.last.cell /\ vec.blocks = vec.last.blocks

\* C22: at(index) on a vector and on an array returns the element at index
\* when index < size() and throws out_of_range, leaving the container as
\* it was, when index >= size(); constructing an array<T, n> from an
\* initializer list of another length than n, or assigning one to it,
\* throws as well (and the assignment leaves the array as it was).
C22_AtChecksTheIndex ==
    /\ vec.last.op = "at"
          => /\ vec.exc <=> vec.last.index >= vec.last.size
             /\ VecUnchanged
             /\ (~vec.exc /\ WellFormed(vec.last))
                   => vec.ret = vec.last.elems[vec.last.index + 1]
    /\ arr.op = "at"
          => /\ arr.exc <=> arr.index >= ArrayN
             /\ arr.data = arr.was
             /\ ~arr.exc => arr.ret = arr.was[arr.index]
    /\ arr.op = "array(list)"
          => /\ arr.exc <=> arr.len # ArrayN
             /\ arr.exc <=> arr.st = "none"
    /\ arr.op = "=(list)"
          => /\ arr.exc <=> arr.len # ArrayN
             /\ arr.exc => arr.data = arr.was

\* C22, the case: at(size()) has thrown on a vector that holds elements
C22_Witness ==
    /\ vec.last.op = "at"
    /\ vec.exc
    /\ vec.last.size > 0
    /\ vec.last.index = vec.last.size
    /\ WellFormed(vec.last)

DeallocateFaults ==
    {"deallocate_assert", "deallocate_other_n", "deallocate_not_allocated"}

\* C23: every deallocate(p, n) a container makes passes a non-null p that
\* allocate returned for the same n > 0 and that has not been deallocated
\* since, so the assertion of allocator::deallocate never fails.
C23_DeallocateGetsWhatAllocateGave ==
    vec.faults \cap DeallocateFaults = {}

\* C23, the case: a vector constructed empty has been destroyed, and its
\* destructor has failed the assertion
C23_Witness ==
    /\ vec.st = "dead"
    /\ vec.ops = {}
    /\ vec.faults = {"deallocate_assert"}

\* seq with v inserted before its element of index i (from 0)
InsertAt(seq, i, v) ==
    [k \in 1..(Len(seq) + 1) |->
        IF k <= i THEN seq[k] ELSE IF k = i + 1 THEN v ELSE seq[k - 1]]

\* C24: insert(position, value) at index i of a vector that holds elements
\* makes size() one larger, leaves the elements before i, puts value at i
\* and the former elements i.. after it, and returns begin() + i, with
\* spare capacity and with size() == capacity() alike.
C24_InsertAddsOneElement ==
    (vec.last.op = "insert" /\ WellFormed(vec.last) /\ vec.last.size > 0)
    => /\ vector_size(vec) = vec.last.size + 1
       /\ VContents(vec)
             = InsertAt(vec.last.elems, vec.last.index, vec.last.value)
       /\ vec.ret = PtrAdd(vec.begin, vec.last.index)

\* C24, the case: insert has reallocated a full vector, the elements and
\* value are in the new block in the right order, the iterator returned
\* is right and _end is not the end of the elements
C24_Witness ==
    /\ vec.last.op = "insert" /\ WellFormed(vec.last) /\ vec.last.size > 0
    /\ vec.last.grew
    /\ vec.ret = PtrAdd(vec.begin, vec.last.index)
    /\ [k \in 1..(vec.last.size + 1) |-> VRead(vec, vec.begin + k - 1)]
          = InsertAt(vec.last.elems, vec.last.index, vec.last.value)
    /\ vec.end # vec.begin + vec.last.size + 1

\* the live shared_ptr variables that have control block c
Sharers(c) ==
    {x \in Ptrs : sptr.p[x].st = "live" /\ sptr.p[x].ctrl_block_ = c}

\* C25: after any sequence of copy and move constructions, copy and move
\* assignments, resets and destructions, use_count() of every non-null
\* shared_ptr is the number of live shared_ptr that share its control
\* block, and every managed object has been deleted once if no live
\* shared_ptr shares its control block any more, and never otherwise.
C25_UseCountCountsTheSharers ==
    /\ \A x \in Ptrs :
          (sptr.p[x].st = "live" /\ sptr.p[x].ptr_ # 0)
          => /\ sptr.p[x].ctrl_block_ # 0
             /\ sptr.blocks[sptr.p[x].ctrl_block_].ptr_ = sptr.p[x].ptr_
             /\ use_count(sptr, x)
                   = Cardinality(Sharers(sptr.p[x].ctrl_block_))
    /\ \A c \in 1..Len(sptr.blocks) :
          /\ sptr.blocks[c].deleted = IF Sharers(c) = {} THEN 1 ELSE 0
          /\ sptr.objs[sptr.blocks[c].ptr_] = sptr.blocks[c].deleted
    /\ \A o \in 1..Len(sptr.objs) :
          Cardinality({c \in 1..Len(sptr.blocks) : sptr.blocks[c].ptr_ = o})
             = 1
    /\ sptr.faults = {}

\* C25, the case: an object shared by two shared_ptr, another object
\* deleted since it lost its last owner, and a shared_ptr destroyed
C25_Witness ==
    /\ \E x \in Ptrs : sptr.p[x].st = "live" /\ use_count(sptr, x) = 2
    /\ \E o \in 1..Len(sptr.objs) : sptr.objs[o] = 1
    /\ \E x \in Ptrs : sptr.p[x].st = "dead"

\* the live unique_ptr variables that hold object o
Owners(o) == {x \in Ptrs : uptr.p[x].st = "live" /\ uptr.p[x].ptr_ = o}

\* no object has two owners; an object has been deleted once if no
\* unique_ptr holds it any more (its owner was destroyed, reset or
\* assigned over) and never otherwise
OwnedOnceDeletedOnce ==
    \A o \in 1..Len(uptr.objs) :
       /\ Cardinality(Owners(o)) <= 1
       /\ uptr.objs[o] = IF Owners(o) = {} THEN 1 ELSE 0

\* C26 as claimed: after a move construction or a move assignment, that
\* of a unique_ptr to itself included, the source tests false; no object
\* has two owners; every object is deleted exactly once, when its owner is
\* destroyed, reset or assigned over.
C26_MoveLeavesTheSourceEmpty ==
    /\ uptr.last.op \in {"move", "move_assign"}
          => ~unique_bool(uptr, uptr.last.src)
    /\ OwnedOnceDeletedOnce

\* C26 amended: after a move construction, or a move assignment from
\* another unique_ptr, the source tests false and the destination holds
\* what the source held; a move assignment of a unique_ptr to itself
\* leaves it holding what it held, not deleted; no object has two owners;
\* every object is deleted exactly once, when its owner is destroyed,
\* reset or assigned over.
C26_MoveFromAnotherLeavesTheSourceEmpty ==
    /\ (uptr.last.op \in {"move", "move_assign"}
            /\ uptr.last.src # uptr.last.dst)
          => /\ ~unique_bool(uptr, uptr.last.src)
             /\ uptr.p[uptr.last.dst].ptr_ = uptr.last.was
    /\ (uptr.last.op = "move_assign" /\ uptr.last.src = uptr.last.dst)
          => /\ uptr.p[uptr.last.dst].ptr_ = uptr.last.was
             /\ uptr.last.was # 0 => uptr.objs[uptr.last.was] = 0
    /\ OwnedOnceDeletedOnce

\* C26, the case: a unique_ptr that owned an object has been move-assigned
\* an object from another one, which deleted the object it owned
C26_Witness ==
    /\ uptr.last.op = "move_assign"
    /\ uptr.last.src # uptr.last.dst
    /\ uptr.last.was # 0
    /\ ~unique_bool(uptr, uptr.last.src)
    /\ \E o \in 1..Len(uptr.objs) : uptr.objs[o] = 1

\* seq followed by copies of v up to length n
PaddedTo(seq, n, v) ==
    [k \in 1..n |-> IF k <= Len(seq) THEN seq[k] ELSE v]

\* the last call asked for more than the capacity of a vector whose members
\* were consistent
AskedBeyondCapacity(op) ==
    /\ vec.last.op = op /\ WellFormed(vec.last)
    /\ vec.last.index > vec.last.eos - vec.last.begin

\* C31: reserve(n) and resize(n) with n > capacity() keep the elements and
\* their order; after reserve size() is unchanged and capacity() >= n;
\* after resize size() == n and the new elements equal value; and in every
\* state of a vector begin <= end <= end_of_storage delimit the block that
\* is allocated to it.
C31_ReserveAndResizeKeepTheElements ==
    /\ vec.st = "live" => WellFormed(vec)
    /\ AskedBeyondCapacity("reserve")
       => /\ VContents(vec) = vec.last.elems
          /\ vector_size(vec) = vec.last.size
          /\ vector_capacity(vec) >= vec.last.index
    /\ AskedBeyondCapacity("resize")
       => /\ vector_size(vec) = vec.last.index
          /\ VContents(vec)
                = PaddedTo(vec.last.elems, vec.last.index, vec.last.value)

\* C31, the case: reserve has moved the elements of a vector that held
\* some into a new block of the capacity asked for, in their order, and
\* _end is still the end of the released block
C31_Witness ==
    /\ AskedBeyondCapacity("reserve") /\ vec.last.size > 0
    /\ vector_capacity(vec) = vec.last.index
    /\ [base |-> vec.begin, n |-> vec.last.index] \in vec.blocks
    /\ [k \in 1..vec.last.size |-> VRead(vec, vec.begin + k - 1)]
          = vec.last.elems
    /\ vec.end = vec.last.end
    /\ vec.end # vec.begin + vec.last.size

\* the assignment that was the last operation made, if it was one of o from
\* another deque
JustAssigned(op, o) ==
    /\ dq[o].st = "live"
    /\ hist[o].held.op = op /\ hist[o].held.at = nops
    /\ hist[o].held.from # o

\* what o held before the assignment has been deallocated, and o holds the
\* sequence its operand held
ReleasedAndTaken(o) ==
    /\ hist[o].held.bufs \cap AllocatedBufs(bufs) = {}
    /\ hist[o].held.map \notin LiveMaps
    /\ Iterate(dq[o]) = hist[o].abs

\* C32: after d = other, by copy or by move, every buffer and the map that
\* d held before have been deallocated and d holds other's element
\* sequence; after a move assignment other has a null map and default
\* iterators.
C32_AssignmentReleasesTheTarget ==
    \A o \in Objs :
       /\ JustAssigned("copy_assign", o) => ReleasedAndTaken(o)
       /\ JustAssigned("move_assign", o)
          => /\ ReleasedAndTaken(o)
             /\ dq[hist[o].held.from].map = 0
             /\ dq[hist[o].held.from].begin = NullIt
             /\ dq[hist[o].held.from].end = NullIt

\* C32, the case: a deque that held elements has been copy-assigned from
\* another; it holds the other's sequence in a new map, and the map and a
\* buffer it held before are still allocated
C32_Witness ==
    \E o \in Objs :
       /\ JustAssigned("copy_assign", o)
       /\ hist[o].abs # <<>>
       /\ Iterate(dq[o]) = hist[o].abs
       /\ dq[o].map # hist[o].held.map
       /\ hist[o].held.map \in LiveMaps
       /\ hist[o].held.bufs \cap AllocatedBufs(bufs) # {}

\* the shared_ptr variables of the threads that refer to the control block:
\* those constructed, and those under construction or in release() before
\* its final assignments
RaceHolders(states) ==
    {i \in Instances : sptr.p[i].st \in states /\ sptr.p[i].ctrl_block_ = 1}

\* C33: threads copy and destroy their own shared_ptr variables that share
\* one control block.  Under every interleaving the control block and the
\* object are deleted at most once, and exactly once when every variable
\* is gone; the delete is run by the one thread to which decrement()
\* returned 0, when no variable is left that could use the block; no
\* increment, decrement or use_count meets a deleted block; and until then
\* ref_count_ is the number of variables that have counted themselves in
\* and not yet out.
C33_ConcurrentReleaseDeletesOnce ==
    /\ sptr.blocks[1].deleted <= 1
    /\ sptr.objs[1] = sptr.blocks[1].deleted
    /\ Cardinality(sptr.zero_by) <= 1
    /\ sptr.deleted_by \subseteq sptr.zero_by
    /\ sptr.faults = {}
    /\ sptr.blocks[1].ref_count_ = Cardinality(RaceHolders({"live"}))
    /\ sptr.zero_by # {}
       => RaceHolders({"live", "constructing"}) = {}
    /\ (\A i \in Instances : sptr.p[i].st = "dead")
       => sptr.blocks[1].deleted = 1

\* C33, the case: both threads have copied and destroyed all their
\* variables, the decrements of different threads having met, and the
\* thread whose decrement returned 0 has deleted the block
C33_Witness ==
    /\ \A i \in Instances : sptr.p[i].st = "dead"
    /\ sptr.blocks[1].deleted = 1 /\ sptr.objs[1] = 1
    /\ sptr.blocks[1].ref_count_ = 0
    /\ \E t \in ThreadIds : sptr.zero_by = {t} /\ sptr.deleted_by = {t}

\* the nodes of the list o, its sentinel among them, are allocated and
\* each is the prev of its next and the next of its prev
IsRing(o) ==
    \A x \in Positions(o) :
       /\ ValidNode(lst, x)
       /\ PrevOf(lst, NextOf(lst, x)) = x
       /\ NextOf(lst, PrevOf(lst, x)) = x

\* C34: after any sequence of range construction, push_back, push_front,
\* pop_back, pop_front, insert, erase, splice, reverse and clear every list
\* is a circular doubly linked ring through its sentinel, x->next->prev == x
\* and x->prev->next == x for each of its nodes, size() is the number of
\* its nodes but the sentinel, and a list built from a range iterates the
\* values of the range in order.  (The number of nodes is counted twice:
\* by the caller, lst.cnt, and by the nodes met from begin() to end().)
C34_ListIsARing ==
    /\ lst.faults = {}
    /\ \A o \in Lsts :
          ListLive(o)
          => /\ IsRing(o)
             /\ list_size(lst, o) = lst.cnt[o]
             /\ list_size(lst, o) = Cardinality(Elements(o))
             /\ lst.node[o] \notin Elements(o)
             /\ (lst.last.op = "list(first, last)" /\ lst.last.on = o)
                => [k \in 1..Len(ListNodes(lst, o)) |->
                       ValueOf(lst, ListNodes(lst, o)[k])] = lst.last.src
    /\ Cardinality({p \in 1..Len(lst.nodes) :
                       lst.nodes[p].alloc /\ lst.nodes[p].built})
          = lst.cnt["a"] + lst.cnt["b"]

\* C34, the case: a range of elements of b, not all of them, has been
\* spliced into a; both lists are rings, a of three elements or more
C34_Witness ==
    /\ lst.last.op = "splice_range" /\ lst.last.on = "a"
    /\ ListLive("b") /\ list_size(lst, "b") = lst.cnt["b"]
    /\ lst.cnt["b"] \in 1..(MaxListLen - 1)
    /\ list_size(lst, "a") >= 3
    /\ IsRing("a") /\ IsRing("b")

\* the place of x in seq
IndexIn(seq, x) == CHOOSE k \in 1..Len(seq) : seq[k] = x

\* the nodes of seq are in the order they have in ns
InOrderOf(seq, ns) ==
    /\ Range(seq) \subseteq Range(ns)
    /\ \A i, j \in 1..Len(seq) :
          i < j => IndexIn(ns, seq[i]) < IndexIn(ns, seq[j])

\* C35: merge(x, comp) on two lists sorted by comp leaves *this sorted by
\* comp and holding exactly the elements of both, the elements of each in
\* the order they had and those of *this before equivalent ones of x,
\* leaves x empty, and neither allocates nor destroys a node: the nodes
\* are those there were, with the values they had.
C35_MergeKeepsSortedAndStable ==
    lst.last.op = "merge"
    => LET o == lst.last.on
           x == lst.last.from
           mine == lst.last.mine
           theirs == lst.last.theirs
           ns == ListNodes(lst, o)
       IN  /\ lst.faults = {}
           /\ IsRing(o) /\ IsRing(x)
           /\ \A k \in 1..(Len(ns) - 1) :
                 ~less(ValueOf(lst, ns[k + 1]), ValueOf(lst, ns[k]))
           /\ Len(ns) = Len(mine) + Len(theirs)
           /\ Range(ns) = Range(mine) \cup Range(theirs)
           /\ InOrderOf(mine, ns) /\ InOrderOf(theirs, ns)
           /\ \A m \in Range(mine), t \in Range(theirs) :
                 ValueOf(lst, m) = ValueOf(lst, t)
                 => IndexIn(ns, m) < IndexIn(ns, t)
           /\ list_empty(lst, x) /\ list_size(lst, x) = 0
           /\ Len(lst.nodes) = Len(lst.last.heap)
           /\ \A p \in 1..Len(lst.nodes) :
                 /\ lst.nodes[p].alloc = lst.last.heap[p].alloc
                 /\ lst.nodes[p].built = lst.last.heap[p].built
                 /\ lst.nodes[p].value = lst.last.heap[p].value

\* C35, the case: two sorted lists of two elements or more with an element
\* in common have been merged, and an element of x has come to stand
\* before an element of *this
C35_Witness ==
    /\ lst.last.op = "merge"
    /\ Len(lst.last.mine) >= 2 /\ Len(lst.last.theirs) >= 2
    /\ \E m \in Range(lst.last.mine), t \in Range(lst.last.theirs) :
          ValueOf(lst, m) = ValueOf(lst, t)
    /\ \E m \in Range(lst.last.mine), t \in Range(lst.last.theirs) :
          IndexIn(ListNodes(lst, lst.last.on), t)
             < IndexIn(ListNodes(lst, lst.last.on), m)
    /\ list_empty(lst, lst.last.from)

====
